---- MODULE Spec2Model ----
(***************************************************************************)
(* Model of the RAG agent service (backend/rag_agent): the Response Cache  *)
(* (utils/performance.py), the Session Store (services/conversation.py),   *)
(* the answer path (agents/textbook_agent.py) and the orchestration layer  *)
(* (services/agent_service.py, api/routes/chat.py).                        *)
(*                                                                         *)
(* Four specifications share the variables:                                *)
(*   SpecCache    the LRUCache class driven directly by get and put;       *)
(*   SpecSession  the ConversationService operations;                      *)
(*   Spec         the request path: answer_question, chat_endpoint,        *)
(*                process_request, process_request_with_circuit_breaker;   *)
(*   SpecRetrieval  the Retrieval Engine (agents/retrieval_tool.py):       *)
(*                retrieve_context and retrieve_context_with_expansion     *)
(*                over the corpora the vector store can hold.              *)
(***************************************************************************)
EXTENDS Integers, Sequences, FiniteSets, TLC

VARIABLES
    cache,          \* response_cache.cache: OrderedDict as a sequence of [key, value], oldest first
    lastUse,        \* ghost: key -> logical time of its last get hit or put (SpecCache)
    tick,           \* ghost: number of LRUCache operations performed (SpecCache)
    sessions,       \* ConversationService.sessions: session id -> ConversationSession
    added,          \* ghost: session id -> [base, turns, served, clean]: history when last set, turns added
                    \* since, questions of the requests processed for it, whether all were fault-free
    heap,           \* ChatResponse objects alive: object id -> fields
    stored,         \* ghost: cache key -> [value, at]: fields of the response when it was put, and when
    upstream,       \* ghost: calls made so far to the embedding, search and completion services
    active_sessions,\* api/routes/chat.py active_sessions: the session ids the chat endpoint has seen
    now,            \* wall clock, seconds
    requests,       \* ghost: number of operations performed (bounds the runs)
    ret,            \* ghost: the last operation, its arguments and what it returned
    corpus,         \* the vector store: the points it ranks for the original and the expanded query
    last_seen,      \* ghost: seen_content and seen_urls as the last retrieval call left them
    tasks,          \* asyncio tasks on the event loop: task id -> position and locals (SpecConcurrent)
    chunker,        \* main.py: the call of chunk_text in progress, its locals and its position
    collection      \* main.py: the points of the vector-store collection

vars == <<cache, lastUse, tick, sessions, added, heap, stored, upstream, active_sessions, now,
          requests, ret, corpus, last_seen, tasks, chunker, collection>>

None == "None"

(***************************************************************************)
(* Bounds of the model.                                                    *)
(***************************************************************************)
\* capacity of the modelled LRUCache; the deployed instance is LRUCache(maxsize=512)
maxsize == 2
MaxCacheOps == 5

CacheKeys == {"k1", "k2", "k3"}
CacheValues == {"v1", "v2"}

Min(a, b) == IF a < b THEN a ELSE b
Max(a, b) == IF a > b THEN a ELSE b

(***************************************************************************)
(* LRUCache (utils/performance.py).                                        *)
(***************************************************************************)
Keys(c) == {c[i].key : i \in 1..Len(c)}

IndexOf(c, key) == CHOOSE i \in 1..Len(c) : c[i].key = key

Without(c, i) == SubSeq(c, 1, i - 1) \o SubSeq(c, i + 1, Len(c))

\* OrderedDict.move_to_end(key)
move_to_end(c, key) == LET i == IndexOf(c, key) IN Append(Without(c, i), c[i])

\* OrderedDict.popitem(last=False): raises KeyError on an empty dict
popitem_first(c) == Tail(c)

setitem_append(c, key, value) == Append(c, [key |-> key, value |-> value])

\* OrderedDict.__setitem__: an existing key keeps its position, a new key goes last
setitem(c, key, value) ==
    IF key \in Keys(c)
    THEN [c EXCEPT ![IndexOf(c, key)].value = value]
    ELSE Append(c, [key |-> key, value |-> value])

\* LRUCache.get: [cache, value]
LRUCache_get(c, key) ==
    IF key \in Keys(c)
    THEN [cache |-> move_to_end(c, key), value |-> c[IndexOf(c, key)].value]
    ELSE [cache |-> c, value |-> None]

LRUCache_put_evict_newest(c, key, value) ==
    IF key \in Keys(c)
    THEN setitem(move_to_end(c, key), key, value)
    ELSE IF Len(c) >= maxsize
         THEN setitem(SubSeq(c, 1, Len(c) - 1), key, value)
         ELSE setitem(c, key, value)

\* LRUCache.put
LRUCache_put(c, key, value) ==
    IF key \in Keys(c)
    THEN setitem(move_to_end(c, key), key, value)
    ELSE IF Len(c) >= maxsize
         THEN setitem(popitem_first(c), key, value)
         ELSE setitem(c, key, value)

InitCache ==
    /\ cache = << >>
    /\ lastUse = [k \in {} |-> 0]
    /\ tick = 0

NoRet == [op |-> "none"]

\* no ingestion has started
Idle == [phase |-> "idle"]

Init ==
    /\ InitCache
    /\ sessions = [s \in {} |-> 0]
    /\ added = [s \in {} |-> 0]
    /\ heap = [o \in {} |-> 0]
    /\ stored = [k \in {} |-> 0]
    /\ upstream = [embedding |-> 0, search |-> 0, completion |-> 0]
    /\ active_sessions = {}
    /\ now = 0
    /\ requests = 0
    /\ ret = NoRet
    /\ corpus = [original |-> << >>, expanded |-> << >>]
    /\ last_seen = [content |-> {}, urls |-> {}]
    /\ tasks = [t \in {} |-> 0]
    /\ chunker = Idle
    /\ collection = {}

Touch(f, key, t) == [k \in DOMAIN f \cup {key} |-> IF k = key THEN t ELSE f[k]]

\* response_cache.get(key), called directly
CacheGet ==
    \E key \in CacheKeys :
        /\ tick < MaxCacheOps
        /\ LET r == LRUCache_get(cache, key) IN
            /\ cache' = r.cache
            /\ lastUse' = IF key \in Keys(cache) THEN Touch(lastUse, key, tick + 1) ELSE lastUse
            /\ ret' = [op |-> "get", key |-> key, value |-> r.value]
        /\ tick' = tick + 1
        /\ UNCHANGED <<chunker, collection, tasks, sessions, added, heap, stored, upstream, active_sessions, now, requests,
                       corpus, last_seen>>

\* response_cache.put(key, value), called directly
CachePut ==
    \E key \in CacheKeys, value \in CacheValues :
        /\ tick < MaxCacheOps
        /\ cache' = LRUCache_put(cache, key, value)
        /\ lastUse' = Touch(lastUse, key, tick + 1)
        /\ ret' = [op |-> "put", key |-> key, value |-> value,
                   evicted |-> Keys(cache) \ Keys(LRUCache_put(cache, key, value))]
        /\ tick' = tick + 1
        /\ UNCHANGED <<chunker, collection, tasks, sessions, added, heap, stored, upstream, active_sessions, now, requests,
                       corpus, last_seen>>

NextCache == CacheGet \/ CachePut

SpecCache == Init /\ [][NextCache]_vars

(***************************************************************************)
(* Session Store (services/conversation.py, api/models/request.py).        *)
(***************************************************************************)
\* the history bound of add_conversation_turn and of the ConversationSession model
HistoryLimit == 50
\* most turns added to one session (SpecSession)
MaxTurnCalls == 52
\* most turns added to every other session meanwhile (SpecSession)
MaxShortTurns == 1

\* session ids that are well-formed UUIDs; create_session draws its uuid4 from them
SessionIds == {"s1", "s2"}
\* uuid4 values drawn by chat_endpoint for requests without a session id
EndpointIds == {"u1", "u2", "u3"}
\* a session id that is no UUID
BadId == "not-a-uuid"

\* helpers.is_valid_uuid / ConversationSession._is_valid_uuid: uuid.UUID(s) parses
is_valid_uuid(s) == s \in SessionIds \cup EndpointIds

\* Python's seq[start:] for any integer start
PySliceFrom(s, start) ==
    LET n == Len(s)
        from == IF start < 0 THEN Max(n + start, 0) ELSE Min(start, n)
    IN  SubSeq(s, from + 1, n)

\* datetime.now().isoformat(): a naive timestamp
NaiveNow(t) == [t |-> t, aware |-> FALSE]
\* datetime.now(pytz.UTC).isoformat(): a timestamp carrying a UTC offset
AwareNow(t) == [t |-> t, aware |-> TRUE]

\* ConversationSession(id, user_id, metadata, conversation_history=[]) with its defaults
ConversationSession(t) ==
    [conversation_history |-> << >>,
     created_at |-> AwareNow(t),
     last_activity |-> AwareNow(t),
     active |-> TRUE,
     metadata |-> {}]

\* ConversationSession.validate_uuid_fields: user_id is None or a UUID
ConversationSessionValid(user_id) == user_id = None \/ is_valid_uuid(user_id)

Put(f, k, v) == [x \in DOMAIN f \cup {k} |-> IF x = k THEN v ELSE f[x]]
Remove(f, k) == [x \in DOMAIN f \ {k} |-> f[x]]

\* ConversationService.get_session: [sessions, found]
get_session(ss, sid, t) ==
    IF ~is_valid_uuid(sid) THEN [sessions |-> ss, found |-> FALSE]
    ELSE IF sid \in DOMAIN ss
         THEN [sessions |-> [ss EXCEPT ![sid].last_activity = NaiveNow(t)], found |-> TRUE]
         ELSE [sessions |-> ss, found |-> FALSE]

Turn(question, response, t) == [question |-> question, response |-> response, timestamp |-> t]

trim_first(h) == IF Len(h) > HistoryLimit THEN SubSeq(h, 1, HistoryLimit) ELSE h

\* conversation_history[-50:] when the history is longer than 50
trim(h) == IF Len(h) > HistoryLimit THEN PySliceFrom(h, 0 - HistoryLimit) ELSE h

\* ConversationService.add_conversation_turn: [sessions, result]
add_conversation_turn(ss, sid, question, response, t) ==
    LET g == get_session(ss, sid, t) IN
    IF ~g.found THEN [sessions |-> g.sessions, result |-> FALSE]
    ELSE [sessions |-> [g.sessions EXCEPT ![sid].conversation_history =
                            trim(Append(@, Turn(question, response, t)))],
          result |-> TRUE]

\* conversation_history[-max_turns:]
recent_turns(h, max_turns) == PySliceFrom(h, 0 - max_turns)

\* ConversationService.get_conversation_context: [sessions, result]
get_conversation_context(ss, sid, max_turns, t) ==
    LET g == get_session(ss, sid, t) IN
    IF ~g.found THEN [sessions |-> g.sessions, result |-> << >>]
    ELSE LET recent == recent_turns(g.sessions[sid].conversation_history, max_turns)
         IN  [sessions |-> g.sessions,
              result |-> [i \in 1..Len(recent) |->
                            Turn(recent[i].question, recent[i].response, recent[i].timestamp)]]

\* ConversationService.update_session: [sessions, result]; new_data maps field names to values
update_session(ss, sid, new_data, t) ==
    LET g == get_session(ss, sid, t) IN
    IF ~g.found THEN [sessions |-> g.sessions, result |-> FALSE]
    ELSE LET s0 == g.sessions[sid]
             s1 == IF "metadata" \in DOMAIN new_data
                   THEN [s0 EXCEPT !.metadata = @ \cup new_data.metadata] ELSE s0
             s2 == IF "conversation_history" \in DOMAIN new_data
                   THEN [s1 EXCEPT !.conversation_history = new_data.conversation_history] ELSE s1
             s3 == IF "active" \in DOMAIN new_data
                   THEN [s2 EXCEPT !.active = new_data.active] ELSE s2
         IN  [sessions |-> [g.sessions EXCEPT ![sid] = [s3 EXCEPT !.last_activity = NaiveNow(t)]],
              result |-> TRUE]

end_session_reports_true(ss, sid) == [sessions |-> Remove(ss, sid), result |-> TRUE]

\* ConversationService.end_session: [sessions, result]
end_session(ss, sid) ==
    IF sid \in DOMAIN ss THEN [sessions |-> Remove(ss, sid), result |-> TRUE]
    ELSE [sessions |-> ss, result |-> FALSE]

\* settings.session_timeout_minutes: supplied by the configuration
session_timeout_minutes == 5

\* ConversationService.cleanup_expired_sessions: [sessions, raised].  Subtracting a
\* timestamp that carries an offset from the naive datetime.now() raises TypeError,
\* which the loop does not catch; the sessions are removed only after the loop.
cleanup_expired_sessions(ss, t) ==
    IF \E sid \in DOMAIN ss : ss[sid].last_activity.aware
    THEN [sessions |-> ss, raised |-> "TypeError"]
    ELSE LET expired == {sid \in DOMAIN ss :
                            t - ss[sid].last_activity.t > session_timeout_minutes * 60}
         IN  [sessions |-> [sid \in DOMAIN ss \ expired |-> ss[sid]], raised |-> None]

\* the sessions whose last activity lies more than the timeout before t
expired_sessions(ss, t) ==
    {sid \in DOMAIN ss : t - ss[sid].last_activity.t > session_timeout_minutes * 60}

\* seconds that pass in one Wait step, and the latest time SpecSession reaches
WaitSeconds == 200
MaxWait == 400

\* ghost: the history of sid was set to h (by create_session or update_session)
AddedReset(a, sid, h) ==
    Put(a, sid, [base |-> h, turns |-> << >>,
                 served |-> IF sid \in DOMAIN a THEN a[sid].served ELSE << >>,
                 clean |-> IF sid \in DOMAIN a THEN a[sid].clean ELSE TRUE])
\* ghost: the sessions in gone were removed; their ids are never drawn again
AddedGone(a, gone) ==
    [s \in DOMAIN a |-> IF s \in gone
                        THEN [base |-> << >>, turns |-> << >>, served |-> << >>, clean |-> TRUE]
                        ELSE a[s]]
\* ghost: add_conversation_turn appended turn to the history of sid
AddedTurn(a, sid, turn) == [a EXCEPT ![sid].turns = Append(@, turn)]

\* the turns added to sid since its history was last set
TurnsAdded(sid) == IF sid \in DOMAIN sessions THEN Len(added[sid].turns) ELSE 0

\* bound of SpecSession: one more turn may be added to sid only while sid stays
\* within MaxTurnCalls, at most one live session holds a long run of turns, and
\* long runs happen before time passes
MayAddTurn(sid) ==
    /\ TurnsAdded(sid) < MaxTurnCalls
    /\ now = 0 \/ TurnsAdded(sid) < MaxShortTurns
    /\ \A other \in DOMAIN sessions \ {sid} :
          TurnsAdded(sid) < MaxShortTurns \/ TurnsAdded(other) <= MaxShortTurns

\* a history longer than the bound, as a caller of update_session can pass it
Overlong == [i \in 1..(HistoryLimit + 1) |-> Turn(0, 0, 0)]

NewDatas ==
    { [conversation_history |-> Overlong, metadata |-> {"k"}, active |-> FALSE] }

MaxTurnsArgs == {0, 5}

Frame == UNCHANGED <<chunker, collection, tasks, cache, lastUse, tick, heap, stored, upstream, active_sessions, now,
                     requests,
                     corpus, last_seen>>

\* conversation_service.create_session(user_id)
CreateSession ==
    \E user_id \in {None, BadId} :
        /\ Frame
        /\ IF ~ConversationSessionValid(user_id)
           THEN /\ ret' = [op |-> "create_session", raised |-> "ValidationError"]
                /\ UNCHANGED <<sessions, added>>
           ELSE \E sid \in SessionIds \ DOMAIN added :
                /\ sessions' = Put(sessions, sid, ConversationSession(now))
                /\ added' = AddedReset(added, sid, << >>)
                /\ ret' = [op |-> "create_session", raised |-> None, session_id |-> sid]

\* conversation_service.get_session(session_id)
GetSession ==
    \E sid \in SessionIds \cup {BadId} :
        LET r == get_session(sessions, sid, now) IN
        /\ sessions' = r.sessions
        /\ ret' = [op |-> "get_session", session_id |-> sid, result |-> r.found]
        /\ UNCHANGED added
        /\ Frame

\* conversation_service.add_conversation_turn(session_id, question, response); the
\* n-th turn added to a session since its history was set carries question n, so
\* that order and eviction are observable
AddConversationTurn ==
    \E sid \in SessionIds \cup {BadId} :
        /\ MayAddTurn(sid)
        /\ LET n == IF sid \in DOMAIN sessions THEN Len(added[sid].turns) + 1 ELSE 1
               r == add_conversation_turn(sessions, sid, n, n, now)
           IN  /\ sessions' = r.sessions
               /\ added' = IF r.result THEN AddedTurn(added, sid, Turn(n, n, now)) ELSE added
               /\ ret' = [op |-> "add_conversation_turn", session_id |-> sid, result |-> r.result]
        /\ Frame

\* conversation_service.get_conversation_context(session_id, max_turns)
GetConversationContext ==
    \E sid \in SessionIds \cup {BadId}, max_turns \in MaxTurnsArgs :
        LET r == get_conversation_context(sessions, sid, max_turns, now) IN
        /\ sessions' = r.sessions
        /\ ret' = [op |-> "get_conversation_context", session_id |-> sid,
                   max_turns |-> max_turns, result |-> r.result]
        /\ UNCHANGED added
        /\ Frame

\* conversation_service.update_session(session_id, new_data)
UpdateSession ==
    \E sid \in SessionIds \cup {BadId}, new_data \in NewDatas :
        LET r == update_session(sessions, sid, new_data, now) IN
        /\ sessions' = r.sessions
        /\ added' = IF r.result /\ "conversation_history" \in DOMAIN new_data
                    THEN AddedReset(added, sid, new_data.conversation_history) ELSE added
        /\ ret' = [op |-> "update_session", session_id |-> sid, result |-> r.result]
        /\ Frame

\* conversation_service.end_session(session_id)
EndSession ==
    \E sid \in SessionIds \cup {BadId} :
        LET r == end_session(sessions, sid) IN
        /\ sessions' = r.sessions
        /\ ret' = [op |-> "end_session", session_id |-> sid, result |-> r.result]
        /\ added' = AddedGone(added, DOMAIN sessions \ DOMAIN r.sessions)
        /\ Frame

\* conversation_service.cleanup_expired_sessions()
CleanupExpiredSessions ==
    LET r == cleanup_expired_sessions(sessions, now) IN
    /\ sessions' = r.sessions
    /\ ret' = [op |-> "cleanup_expired_sessions", raised |-> r.raised]
    /\ added' = AddedGone(added, DOMAIN sessions \ DOMAIN r.sessions)
    /\ Frame

\* time passes between two calls of the conversation service
Wait ==
    /\ now < MaxWait
    /\ \A sid \in DOMAIN sessions : TurnsAdded(sid) <= MaxShortTurns
    /\ now' = now + WaitSeconds
    /\ ret' = [op |-> "wait"]
    /\ UNCHANGED <<chunker, collection, tasks, cache, lastUse, tick, sessions, added, heap, stored, upstream,
                   active_sessions, requests, corpus, last_seen>>

NextSession ==
    \/ Wait
    \/ CreateSession
    \/ GetSession
    \/ AddConversationTurn
    \/ GetConversationContext
    \/ UpdateSession
    \/ EndSession
    \/ CleanupExpiredSessions

SpecSession == Init /\ [][NextSession]_vars

(***************************************************************************)
(* The Retrieval Engine: agents/retrieval_tool.py.  Scores are in          *)
(* thousandths (0.8 is 800).                                               *)
(***************************************************************************)
\* candidates the vector store ranks for the original and for the expanded query
MaxOriginal == 2
MaxExpanded == 1
\* largest top_k requested
MaxTopK == 2

\* a payload without the field
Missing == "<missing>"
DefaultUrl == "https://example.com"
UnknownChapter == "Unknown Chapter"
UnknownSection == "Unknown Section"

\* contents longer than 100 characters that agree on their first 100 characters
LongHips == "Humanoid robotics relies on balance feedback from joint encoders and an inertial unit at each step, then the controller shifts the hips."
LongFoothold == "Humanoid robotics relies on balance feedback from joint encoders and an inertial unit at each step, then the planner picks a foothold."

\* a content that repeats one of the repetitive patterns
IntroPath == "Complete Learning Path overview. Complete Learning Path summary."

\* str.strip() on the strings of the model
strip(s) ==
    CASE s = "  GAIT CONTROL  " -> "GAIT CONTROL"
      [] s = "   " -> ""
      [] s = " Hardware " -> "Hardware"
      [] OTHER -> s
\* s[:100]
first100(s) ==
    IF s \in {LongHips, LongFoothold}
    THEN "Humanoid robotics relies on balance feedback from joint encoders and an inertial unit at each step, "
    ELSE s
\* str.lower()
lower(s) ==
    CASE s \in {"Gait control", "GAIT CONTROL"} -> "gait control"
      [] s = "Sensors" -> "sensors"
      [] s = "Actuators" -> "actuators"
      [] s = IntroPath -> "complete learning path overview. complete learning path summary."
      [] s = "Humanoid robotics relies on balance feedback from joint encoders and an inertial unit at each step, " ->
             "humanoid robotics relies on balance feedback from joint encoders and an inertial unit at each step, "
      [] OTHER -> s
\* len(content.strip())
strip_len(s) ==
    CASE s = LongHips -> 136
      [] s = LongFoothold -> 134
      [] s \in {"Gait control", "  GAIT CONTROL  ", "gait control"} -> 12
      [] s = "Sensors" -> 7
      [] s = "Actuators" -> 9
      [] s = IntroPath -> 64
      [] OTHER -> 0
\* the dedup key of a content: content.strip()[:100].lower()
content_key(content) == lower(first100(strip(content)))

\* the payloads stored in the vector store, by point id
PointIds == {"A", "B", "C", "D", "E", "F", "G", "H"}
Payload(id) ==
    CASE id = "A" -> [content |-> "Gait control", url |-> "https://book.org/gait",
                      chapter |-> "Locomotion", section |-> "Gait"]
      [] id = "B" -> [content |-> "  GAIT CONTROL  ", url |-> "https://book.org/walking",
                      chapter |-> "Locomotion", section |-> "Walking"]
      [] id = "C" -> [content |-> LongHips, url |-> "https://book.org/gait",
                      chapter |-> "Locomotion", section |-> "Balance"]
      [] id = "D" -> [content |-> LongFoothold, url |-> "https://book.org/planning",
                      chapter |-> "Planning", section |-> "Footholds"]
      [] id = "E" -> [content |-> "Sensors", url |-> Missing,
                      chapter |-> Missing, section |-> ""]
      [] id = "F" -> [content |-> "Actuators", url |-> Missing,
                      chapter |-> " Hardware ", section |-> Missing]
      [] id = "G" -> [content |-> "gait control", url |-> "",
                      chapter |-> "Locomotion", section |-> "Gait"]
      [] id = "H" -> [content |-> "   ", url |-> "https://book.org/blank",
                      chapter |-> "Appendix", section |-> "Blank"]
      [] id = "I" -> [content |-> IntroPath, url |-> "https://book.org/intro",
                      chapter |-> "Introduction", section |-> "Learning path"]
\* the similarity score the vector store reports for a point
Score(id) == IF id \in {"A", "B", "C", "G"} THEN 800 ELSE 400
Queries == {"how do robots walk", "robotics"}

\* payload.get(field, default)
get(payload, field, default) ==
    IF payload[field] = Missing THEN default ELSE payload[field]
\* x or default
or_default(x, default) == IF x = "" THEN default ELSE x

\* RetrievedContext._is_valid_url, Citation._is_valid_url
is_valid_url(url) ==
    url \in {"https://book.org/gait", "https://book.org/walking", "https://book.org/planning",
             "https://book.org/blank", "https://book.org/intro", DefaultUrl}

\* the number of technical_keywords found in the content ('ai' is found in 'gait')
keyword_matches(content) ==
    CASE content \in {LongHips, LongFoothold} -> 2
      [] content \in {"Gait control", "  GAIT CONTROL  ", "gait control"} -> 1
      [] OTHER -> 0
\* content.lower().count(pattern.lower()) > 1 for one of the repetitive_patterns
repetitive(content) == content = IntroPath
\* no content of the model holds a technical term
technical_term_matches(content) == 0

boosted(q, matches, tenths) ==
    IF matches > 0 THEN Min(1000, (q * (10 + matches * tenths)) \div 10) ELSE q
floored(q, matches) == IF matches > 0 /\ q < 300 THEN 300 ELSE q
\* QdrantRetrievalTool._calculate_quality_score
calculate_quality_score(content, base_similarity_score) ==
    Max(0, Min(1000,
        floored(boosted(boosted(((IF repetitive(content) THEN 5 ELSE 10)
                                     * (IF strip_len(content) < 50 THEN 7 ELSE 10)
                                     * base_similarity_score) \div 100,
                                keyword_matches(content), 2),
                        technical_term_matches(content), 1),
                keyword_matches(content))))

\* the keyword arguments of RetrievedContext(...) for a point
context_fields(point) ==
    [id |-> point.id,
     content |-> get(Payload(point.id), "content", ""),
     url |-> get(Payload(point.id), "url", DefaultUrl),
     chapter |-> or_default(get(Payload(point.id), "chapter", UnknownChapter), UnknownChapter),
     section |-> or_default(get(Payload(point.id), "section", UnknownSection), UnknownSection),
     similarity_score |-> calculate_quality_score(get(Payload(point.id), "content", ""),
                                                  point.score)]
\* a constructor that accepts any fields
RetrievedContextValid_any(f) == TRUE
\* the constructor accepts the fields
RetrievedContextValid(f) ==
    /\ strip(f.content) # ""
    /\ is_valid_url(f.url)
    /\ strip(f.chapter) # ""
    /\ strip(f.section) # ""
    /\ f.similarity_score \in 0..1000
\* the object constructed: the validator of chapter and section returns v.strip()
RetrievedContext(f) == [f EXCEPT !.chapter = strip(@), !.section = strip(@)]

\* Citation(...) as _extract_citations builds it from a context
Citation(ctx) ==
    [source_url |-> ctx.url, chapter |-> ctx.chapter, section |-> ctx.section,
     similarity_score |-> ctx.similarity_score]

\* what one pass of the dedup loop holds: the contexts built so far, the two
\* seen sets, and (ghost) the position of the last candidate visited and the
\* positions of the candidates that became contexts
NoSeen == [content |-> {}, urls |-> {}]
\* seen_content = set(); seen_urls = set(): a call starts from empty sets,
\* whatever the previous call left behind
seen_at_start_kept(left) == left
seen_at_start(left) == NoSeen

\* seen_content.add(content_key); if url: seen_urls.add(url)
mark_seen(acc, point) ==
    [acc EXCEPT !.seen.content = @ \cup {content_key(get(Payload(point.id), "content", ""))},
                !.seen.urls = @ \cup ({get(Payload(point.id), "url", "")} \ {""})]

\* the body of the for loop for one point, up to retrieved_contexts.append;
\* a constructor that raises is caught per point, after the seen sets were updated
visit(acc, point) ==
    IF strip(get(Payload(point.id), "content", "")) = ""
    THEN acc
    ELSE IF \/ content_key(get(Payload(point.id), "content", "")) \in acc.seen.content
            \/ get(Payload(point.id), "url", "") \in acc.seen.urls
    THEN acc
    ELSE IF ~RetrievedContextValid(context_fields(point))
    THEN mark_seen(acc, point)
    ELSE [mark_seen(acc, point)
             EXCEPT !.contexts = Append(@, RetrievedContext(context_fields(point)))]

RECURSIVE dedup_loop(_, _, _, _)
\* if len(retrieved_contexts) >= top_k: break, reached only after an append
after_visit_no_break(points, i, top_k, appended, acc) ==
    dedup_loop(points, i + 1, top_k,
               [acc EXCEPT !.visited = i, !.taken = IF appended THEN @ \cup {i} ELSE @])
after_visit(points, i, top_k, appended, acc) ==
    IF appended /\ Len(acc.contexts) >= top_k
    THEN [acc EXCEPT !.visited = i, !.taken = @ \cup {i}]
    ELSE dedup_loop(points, i + 1, top_k,
                    [acc EXCEPT !.visited = i, !.taken = IF appended THEN @ \cup {i} ELSE @])
\* for point in points[i:]
dedup_loop(points, i, top_k, acc) ==
    IF i > Len(points)
    THEN acc
    ELSE after_visit(points, i, top_k,
                     Len(visit(acc, points[i]).contexts) > Len(acc.contexts),
                     visit(acc, points[i]))

\* insert x behind every entry whose score is at least its own
RECURSIVE insert_desc(_, _)
insert_desc(s, x) ==
    IF s = << >> THEN <<x>>
    ELSE IF Head(s).similarity_score >= x.similarity_score
    THEN <<Head(s)>> \o insert_desc(Tail(s), x)
    ELSE <<x>> \o s
\* retrieved_contexts.sort(key=similarity_score, reverse=True): stable
RECURSIVE sort_desc(_)
sort_desc(s) ==
    IF s = << >> THEN << >>
    ELSE insert_desc(sort_desc(SubSeq(s, 1, Len(s) - 1)), s[Len(s)])

\* how a retrieval call ended: nothing is raised; candidates are the points the
\* loop was given, visited how many of them it looked at, taken which of them
\* became contexts, seen what it left
retrieved(acc, points) ==
    [raised |-> None, result |-> sort_desc(acc.contexts), candidates |-> points,
     visited |-> acc.visited, taken |-> acc.taken, seen |-> acc.seen]
\* except Exception: return []
retrieval_failed(left) ==
    [raised |-> None, result |-> << >>, candidates |-> << >>, visited |-> 0, taken |-> {},
     seen |-> left, originals |-> 0]

\* the dedup loop and the sort, over the given candidates
collect(points, top_k, left) ==
    retrieved(dedup_loop(points, 1, top_k,
                         [contexts |-> << >>, seen |-> seen_at_start(left), visited |-> 0,
                          taken |-> {}]),
              points)

\* the outcomes of the upstream calls of one retrieval: TRUE is a call that raises
NoRetrievalFault == [embed |-> FALSE, search |-> FALSE, embed2 |-> FALSE, search2 |-> FALSE]
RetrievalFaults ==
    {f \in [embed : BOOLEAN, search : BOOLEAN, embed2 : BOOLEAN, search2 : BOOLEAN] :
        Cardinality({x \in DOMAIN f : f[x]}) <= 1}

\* QdrantRetrievalTool._search_qdrant: the first limit points of the ranking; an
\* exception of the client is caught here and gives []
search_qdrant(ranking, limit, fails) ==
    IF fails THEN << >> ELSE SubSeq(ranking, 1, Min(limit, Len(ranking)))

\* QdrantRetrievalTool.retrieve_context(query, top_k)
RetrievalTool_retrieve_context(c, left, query, top_k, fx) ==
    IF fx.embed
    THEN retrieval_failed(left)
    ELSE collect(search_qdrant(c.original, top_k * 3, fx.search), top_k, left)
             @@ [originals |-> Len(search_qdrant(c.original, top_k * 3, fx.search))]

\* any(term in query_lower for term in [...])
has_technical_terms(query) == query = "robotics"
RECURSIVE sum_scores(_)
sum_scores(points) ==
    IF points = << >> THEN 0 ELSE Head(points).score + sum_scores(Tail(points))
\* avg_similarity < 0.5
low_similarity(points) == sum_scores(points) < 500 * Max(Len(points), 1)

\* retrieve_context_with_expansion once the original query was searched: a
\* failure of the expanded embedding falls back to the original results;
\* originals is the number of candidates that come from the original query
with_original(original_results, c, left, query, top_k, fx) ==
    IF (low_similarity(original_results) \/ has_technical_terms(query)) /\ ~fx.embed2
    THEN collect(original_results \o search_qdrant(c.expanded, top_k * 2, fx.search2),
                 top_k, left)
             @@ [expanded |-> TRUE, originals |-> Len(original_results)]
    ELSE collect(original_results, top_k, left)
             @@ [expanded |-> FALSE, originals |-> Len(original_results)]

\* QdrantRetrievalTool.retrieve_context_with_expansion(query, top_k)
RetrievalTool_retrieve_context_with_expansion(c, left, query, top_k, fx) ==
    IF fx.embed
    THEN retrieval_failed(left) @@ [expanded |-> FALSE]
    ELSE with_original(search_qdrant(c.original, top_k * 2, fx.search), c, left, query,
                       top_k, fx)

\* the ranking stays sorted by score and holds a point once
MayRank(ranking, id) ==
    \A i \in 1..Len(ranking) : ranking[i].id # id /\ ranking[i].score >= Score(id)

\* the corpus is indexed before queries are served
Indexing == ret.op \in {"none", "index"}

RetrievalUnchanged ==
    UNCHANGED <<chunker, collection, tasks, cache, lastUse, tick, sessions, added, heap, stored, upstream,
                active_sessions, now, requests>>

\* a point enters the ranking of the original query
IndexOriginal ==
    /\ Indexing
    /\ Len(corpus.original) < MaxOriginal
    /\ \E id \in PointIds :
          /\ MayRank(corpus.original, id)
          /\ corpus' = [corpus EXCEPT !.original = Append(@, [id |-> id, score |-> Score(id)])]
    /\ ret' = [op |-> "index"]
    /\ UNCHANGED last_seen
    /\ RetrievalUnchanged

\* the points the expanded query can reach: one the original query reaches too,
\* one with the same content and one without a url
ExpandedIds == {"A", "B", "F"}

\* a point enters the ranking of the expanded query
IndexExpanded ==
    /\ Indexing
    /\ Len(corpus.expanded) < MaxExpanded
    /\ \E id \in ExpandedIds :
          /\ MayRank(corpus.expanded, id)
          /\ corpus' = [corpus EXCEPT !.expanded = Append(@, [id |-> id, score |-> Score(id)])]
    /\ ret' = [op |-> "index"]
    /\ UNCHANGED last_seen
    /\ RetrievalUnchanged

\* ghost: the call repeats the call before it
Repeats(op, query, top_k, fx) ==
    /\ ret.op = op
    /\ ret.query = query
    /\ ret.top_k = top_k
    /\ ret.fx = fx

\* the call ended as r; previous is what the call before it returned when this
\* call repeats it
Retrieved(r, op, query, top_k, fx) ==
    /\ ret' = [op |-> op, query |-> query, top_k |-> top_k, fx |-> fx,
               repeat |-> Repeats(op, query, top_k, fx),
               previous |-> IF Repeats(op, query, top_k, fx) THEN ret.result ELSE << >>]
                  @@ [x \in DOMAIN r \ {"seen"} |-> r[x]]
    /\ last_seen' = r.seen
    /\ UNCHANGED corpus
    /\ RetrievalUnchanged

\* the upstream calls fail while the second query is served
FaultsDuring(query) ==
    IF has_technical_terms(query) THEN RetrievalFaults ELSE {NoRetrievalFault}

\* retrieval_tool.retrieve_context(query, top_k)
RetrieveContext ==
    \E query \in Queries, top_k \in 0..MaxTopK :
    \E fx \in {f \in FaultsDuring(query) : ~f.embed2 /\ ~f.search2} :
        Retrieved(RetrievalTool_retrieve_context(corpus, last_seen, query, top_k, fx),
                  "retrieve_context", query, top_k, fx)

\* retrieval_tool.retrieve_context_with_expansion(query, top_k)
RetrieveContextWithExpansion ==
    \E query \in Queries, top_k \in 0..MaxTopK :
    \E fx \in FaultsDuring(query) :
        Retrieved(RetrievalTool_retrieve_context_with_expansion(corpus, last_seen, query,
                                                                top_k, fx),
                  "retrieve_context_with_expansion", query, top_k, fx)

NextRetrieval ==
    \/ IndexOriginal
    \/ IndexExpanded
    \/ RetrieveContext
    \/ RetrieveContextWithExpansion

SpecRetrieval == Init /\ [][NextRetrieval]_vars

(***************************************************************************)
(* The answer path (agents/textbook_agent.py, agents/retrieval_tool.py,    *)
(* utils/performance.py, api/models/response.py).                          *)
(***************************************************************************)
\* most answer_question, chat_endpoint, process_request and circuit breaker calls in a run
MaxRequests == 2
\* seconds the clock advances in one step, and the last instant modelled
TickSeconds == 200
MaxTime == 400
\* most retries the circuit breaker is called with
MaxRetries == 1

\* the ttl argument given to cached_agent_response, in seconds
ttl == 300
\* max_turns of the context lookups of answer_question and process_request
ContextTurns == 5
\* top_k the answer path asks the retrieval tool for: min(settings.default_top_k, 5)
AnswerTopK == 5
\* response_time of the canned response of optimize_concurrent_retrieval after its 8 s timeout
TimeoutSeconds == 8

Questions == {"q1", "q2"}
\* ChatResponse objects are held by identity: the cache and the callers share them
ObjectIds == {"o1", "o2", "o3", "o4"}
\* measured durations, seconds
Durations == {1}

\* user_preferences: None, or UserPreferences.dict()
NoPreferences == [given |-> FALSE, detail_level |-> "", response_format |-> ""]
SomePreferences == [given |-> TRUE, detail_level |-> "advanced", response_format |-> "concise"]
Preferences == {NoPreferences, SomePreferences}

\* what the upstream services do during one run of the pipeline
RetrievalOutcomes == {"embed_fail", "search_fail", "hang", "empty", "found", "intro",
                      "found_intro"}
CompletionOutcomes == {"ok", "raise", "blank", "hang"}
\* how validate_answer_grounding ends: it returns True, returns False, or raises
GroundingOutcomes == {"grounded", "ungrounded", "fails"}
NoFault == [retrieval |-> "found", completion |-> "ok", d |-> 1, grounding |-> "grounded"]
\* no fault, one failing upstream call, or no content found and a failing
\* completion; the grounding verdict varies on runs without a fault
Faults ==
    {fx \in [retrieval : RetrievalOutcomes, completion : CompletionOutcomes, d : Durations,
             grounding : GroundingOutcomes] :
        /\ \/ fx.retrieval = "found"
           \/ fx.completion = "ok"
           \/ fx.retrieval = "empty" /\ fx.completion = "raise"
        /\ \/ fx.grounding = "grounded"
           \/ fx.retrieval = "found" /\ fx.completion = "ok"}

\* the canned texts
AnswerText(question) == IF question = "q1" THEN "answer to q1" ELSE "answer to q2"
NoContentText == "I understand you're asking about"
LLMDownText == "I'm sorry, but I'm having trouble connecting to the AI service right now."
AnswerErrorText == "I'm sorry, but I encountered an error while processing your question."
RequestErrorText == "I'm sorry, but I encountered an error while processing your request."
HighDemandText == "I'm sorry, but I'm experiencing high demand right now."
IssueText == "I'm sorry, but I encountered an issue while processing your request."

\* session_id or "unknown"
SidOrUnknown(session_id) == IF session_id = None THEN "unknown" ELSE session_id

\* the fields a ChatResponse(...) call is given
ChatResponse(response, session_id, citations, retrieved_context_count, response_time) ==
    [response |-> response, session_id |-> session_id, citations |-> citations,
     retrieved_context_count |-> retrieved_context_count, response_time |-> response_time]

\* the validators of ChatResponse; they run when the object is constructed only
ChatResponseValid(r) ==
    /\ r.response # ""
    /\ is_valid_uuid(r.session_id)
    /\ r.retrieved_context_count >= 0
    /\ r.response_time > 0

\* performance.generate_cache_key: the digest of the four values, None counted as ""
generate_cache_key(question, session_id, detail_level, response_format) ==
    <<question, IF session_id = None THEN "" ELSE session_id, detail_level, response_format>>

\* the key cached_agent_response derives from the arguments of answer_question
cache_key_of(question, session_id, user_preferences) ==
    generate_cache_key(question, session_id,
                       IF user_preferences.given THEN user_preferences.detail_level
                                                 ELSE "intermediate",
                       IF user_preferences.given THEN user_preferences.response_format
                                                 ELSE "detailed")

\* what the retrieval tool returns for a question the textbook covers
FoundContexts ==
    RetrievalTool_retrieve_context([original |-> <<[id |-> "A", score |-> Score("A")]>>,
                                    expanded |-> << >>],
                                   NoSeen, "how do robots walk", AnswerTopK, NoRetrievalFault).result

\* what it returns when the store ranks the repetitive introduction, alone or
\* after a point the textbook covers
IntroContexts ==
    RetrievalTool_retrieve_context([original |-> <<[id |-> "I", score |-> Score("I")]>>,
                                    expanded |-> << >>],
                                   NoSeen, "how do robots walk", AnswerTopK, NoRetrievalFault).result
FoundAndIntroContexts ==
    RetrievalTool_retrieve_context([original |-> <<[id |-> "A", score |-> Score("A")],
                                                   [id |-> "I", score |-> Score("I")]>>,
                                    expanded |-> << >>],
                                   NoSeen, "how do robots walk", AnswerTopK, NoRetrievalFault).result

\* RetrievalTool.retrieve_context as the answer path sees it: [contexts,
\* embedding, search]; any failure gives []
retrieve_context(fx) ==
    [contexts |-> CASE fx.retrieval = "found" -> FoundContexts
                    [] fx.retrieval = "intro" -> IntroContexts
                    [] fx.retrieval = "found_intro" -> FoundAndIntroContexts
                    [] OTHER -> << >>,
     embedding |-> 1,
     search |-> IF fx.retrieval = "embed_fail" THEN 0 ELSE 1]

\* the repetition ratio of the words of a content is above 0.7: of no content of
\* the model
mostly_repeated_words(content) == FALSE

\* TextbookAgent._filter_repetitive_contexts
filter_repetitive_contexts(contexts) ==
    SelectSeq(contexts, LAMBDA ctx : ~(repetitive(ctx.content) \/ mostly_repeated_words(ctx.content)))

\* TextbookAgent._generate_answer_with_context: [text, completion]; one completion
\* call on either branch, a canned text when the call fails, "" when the answer
\* is whitespace only
generate_answer_with_context(question, contexts, fx) ==
    [text |-> IF fx.completion = "raise"
              THEN (IF filter_repetitive_contexts(contexts) = << >>
                    THEN NoContentText ELSE LLMDownText)
              ELSE IF fx.completion = "blank" THEN "" ELSE AnswerText(question),
     completion |-> 1]

\* a citation list that holds a placeholder when nothing was retrieved
extract_citations_placeholder(contexts) ==
    IF contexts = << >>
    THEN <<[source_url |-> DefaultUrl, chapter |-> UnknownChapter, section |-> UnknownSection,
            similarity_score |-> 0]>>
    ELSE [i \in 1..Len(contexts) |-> Citation(contexts[i])]
\* TextbookAgent._extract_citations: one citation per retrieved context
extract_citations(contexts) == [i \in 1..Len(contexts) |-> Citation(contexts[i])]

Calls(up, e, s, c) ==
    [embedding |-> up.embedding + e, search |-> up.search + s, completion |-> up.completion + c]

\* state threaded through the operations
State == [sessions |-> sessions, added |-> added, cache |-> cache, heap |-> heap,
          stored |-> stored, upstream |-> upstream]

\* an operation ends by raising e
Raise(st, e) == [st |-> st, raised |-> e, result |-> None]
\* an operation ends by returning a newly constructed object with the given fields
Return(st, fields) ==
    LET id == CHOOSE o \in ObjectIds \ DOMAIN st.heap : TRUE
    IN  [st |-> [st EXCEPT !.heap = Put(@, id, fields)], raised |-> None, result |-> id]
\* ChatResponse(...) with the given fields, returned; the constructor raises on invalid fields
Construct(st, fields) ==
    IF ChatResponseValid(fields) THEN Return(st, fields) ELSE Raise(st, "ValidationError")

\* the context lookup of answer_question and process_request
lookup_context(st, session_id, t) ==
    IF session_id # None
    THEN [st EXCEPT !.sessions = get_conversation_context(@, session_id, ContextTurns, t).sessions]
    ELSE st

\* the state after add_conversation_turn returned a
with_turn(st, a, session_id, turn) ==
    [st EXCEPT !.sessions = a.sessions,
               !.added = IF a.result THEN AddedTurn(@, session_id, turn) ELSE @]

\* the history update of answer_question and process_request
record_turn(st, session_id, question, response, t) ==
    IF session_id # None
    THEN with_turn(st, add_conversation_turn(st.sessions, session_id, question, response, t),
                   session_id, Turn(question, response, t))
    ELSE st

\* the end of the body of answer_question: the response is constructed and the
\* turn recorded; a constructor that raises leads to the canned error response
respond(st, question, session_id, contexts, text, d, t) ==
    IF ChatResponseValid(ChatResponse(text, SidOrUnknown(session_id),
                                      extract_citations(contexts), Len(contexts), d))
    THEN Return(record_turn(st, session_id, question, text, t),
                ChatResponse(text, SidOrUnknown(session_id), extract_citations(contexts),
                             Len(contexts), d))
    ELSE Construct(st, ChatResponse(AnswerErrorText, SidOrUnknown(session_id), << >>, 0, d))

\* the state after the upstream calls of one complete pipeline run
upstream_called(st, fx) ==
    [st EXCEPT !.upstream = Calls(@, retrieve_context(fx).embedding,
                                  retrieve_context(fx).search, 1)]

\* TextbookAgent.validate_answer_grounding under handle_exceptions(
\* fallback_return=False, reraise=False): an exception inside becomes False
validate_answer_grounding(fx) == fx.grounding = "grounded"

after_validation_strict(is_answer_valid, st, r) ==
    IF is_answer_valid THEN r ELSE Raise(st, "ValueError")

\* if not is_answer_valid: logger.warning(...); the run goes on to r either way
after_validation(is_answer_valid, st, r) == r

\* the body of TextbookAgent.answer_question
answer_question_body(st, question, session_id, user_preferences, fx, t) ==
    after_validation(
        validate_answer_grounding(fx),
        upstream_called(lookup_context(st, session_id, t), fx),
        respond(upstream_called(lookup_context(st, session_id, t), fx), question, session_id,
                retrieve_context(fx).contexts,
                generate_answer_with_context(question, retrieve_context(fx).contexts, fx).text,
                fx.d, t))

\* the pipeline run is cancelled by the 8 s timeout while it waits for an upstream call
Hangs(fx) == fx.retrieval = "hang" \/ fx.completion = "hang"

\* the upstream calls a cancelled run has made
cancelled_calls(st, fx) ==
    [st EXCEPT !.upstream = IF fx.retrieval = "hang" THEN Calls(@, 1, 0, 0)
                            ELSE Calls(@, retrieve_context(fx).embedding,
                                       retrieve_context(fx).search, 1)]

\* the except branch of optimize_concurrent_retrieval: b is how the body ended
or_error_response(b, session_id, d) ==
    IF b.raised = None THEN b
    ELSE Construct(b.st, ChatResponse(RequestErrorText, SidOrUnknown(session_id), << >>, 0, d))

\* performance.optimize_concurrent_retrieval around async_timeout and the body
optimize_concurrent_retrieval(st, question, session_id, user_preferences, fx, t) ==
    IF Hangs(fx)
    THEN Construct(cancelled_calls(lookup_context(st, session_id, t), fx),
                   ChatResponse(HighDemandText, SidOrUnknown(session_id), << >>, 0,
                                TimeoutSeconds))
    ELSE or_error_response(
             answer_question_body(st, question, session_id, user_preferences, fx, t),
             session_id, fx.d)

\* ghost: key was put with the given fields at time t; evicted keys are forgotten
Remember(s, c, key, fields, t) ==
    [k \in Keys(c) |-> IF k = key THEN [value |-> fields, at |-> t] ELSE s[k]]

\* the canned texts of a degraded response: timeout, request error, answer error
DegradedTexts == {HighDemandText, RequestErrorText, AnswerErrorText}

put_and_return_answers_only(r, cache_key, t) ==
    IF r.st.heap[r.result].response \in DegradedTexts
    THEN [st |-> r.st, raised |-> None, result |-> r.result, hit |-> FALSE]
    ELSE [st |-> [r.st EXCEPT !.cache = LRUCache_put(@, cache_key, r.result),
                              !.stored = Remember(@, LRUCache_put(r.st.cache, cache_key, r.result),
                                                  cache_key, r.st.heap[r.result], t)],
          raised |-> None, result |-> r.result, hit |-> FALSE]

\* response_cache.put(cache_key, result) and return result
put_and_return(r, cache_key, t) ==
    [st |-> [r.st EXCEPT !.cache = LRUCache_put(@, cache_key, r.result),
                         !.stored = Remember(@, LRUCache_put(r.st.cache, cache_key, r.result),
                                             cache_key, r.st.heap[r.result], t)],
     raised |-> None, result |-> r.result, hit |-> FALSE]

\* a pipeline run that is not cached
uncached(r) == [st |-> r.st, raised |-> r.raised, result |-> r.result, hit |-> FALSE]

\* the miss of cached_agent_response: r is how the pipeline run ended; when it
\* raised, the except branch runs the pipeline a second time, with outcomes fx2
after_miss(r, cache_key, question, session_id, user_preferences, fx2, t) ==
    IF r.raised = None
    THEN put_and_return(r, cache_key, t)
    ELSE uncached(optimize_concurrent_retrieval(r.st, question, session_id, user_preferences,
                                                fx2, t))

\* the read of cached_agent_response: g is what response_cache.get returned
after_get(st, g, cache_key, question, session_id, user_preferences, fx, fx2, t) ==
    IF g.value # None
    THEN [st |-> [st EXCEPT !.cache = g.cache], raised |-> None, result |-> g.value,
          hit |-> TRUE]
    ELSE after_miss(optimize_concurrent_retrieval(st, question, session_id, user_preferences,
                                                  fx, t),
                    cache_key, question, session_id, user_preferences, fx2, t)

\* performance.cached_agent_response(ttl=300) around the rest of answer_question:
\* [st, raised, result, hit].  The ttl argument is not read.
cached_agent_response(st, question, session_id, user_preferences, fx, fx2, t) ==
    after_get(st, LRUCache_get(st.cache, cache_key_of(question, session_id, user_preferences)),
              cache_key_of(question, session_id, user_preferences),
              question, session_id, user_preferences, fx, fx2, t)

\* TextbookAgent.answer_question as decorated; measure_performance re-raises
answer_question(st, question, session_id, user_preferences, fx, fx2, t) ==
    cached_agent_response(st, question, session_id, user_preferences, fx, fx2, t)

\* seconds a call of answer_question took
Elapsed(hit, fx) == IF hit THEN 0 ELSE IF Hangs(fx) THEN TimeoutSeconds ELSE fx.d

\* the end of chat_endpoint: r is how answer_question ended.  The response object
\* is written to before it is returned; an exception becomes an HTTP 500.
endpoint_result(r, active, session_id, total_time) ==
    IF r.raised # None
    THEN [st |-> r.st, active |-> active, raised |-> "HTTPException", result |-> None,
          hit |-> r.hit, session_id |-> session_id]
    ELSE [st |-> [r.st EXCEPT !.heap[r.result].session_id = session_id,
                              !.heap[r.result].response_time = total_time],
          active |-> active, raised |-> None, result |-> r.result, hit |-> r.hit,
          session_id |-> session_id]

\* chat_endpoint once the session id is settled
endpoint_for(st, active, session_id, chat_request, fx, overhead, t) ==
    endpoint_result(answer_question(st, chat_request.question, session_id,
                                    chat_request.user_preferences, fx, NoFault, t),
                    active \cup {session_id}, session_id,
                    Elapsed(cache_key_of(chat_request.question, session_id,
                                         chat_request.user_preferences) \in Keys(st.cache), fx)
                        + overhead)

\* routes/chat.chat_endpoint: [st, active, raised, result, hit, session_id]
chat_endpoint(st, active, chat_request, fx, overhead, t) ==
    endpoint_for(st, active,
                 IF chat_request.session_id = None
                 THEN CHOOSE u \in EndpointIds \ active : TRUE
                 ELSE chat_request.session_id,
                 chat_request, fx, overhead, t)

\* process_request after the agent answered: the turn is recorded a second time
\* and the response object is written to
after_answer(r, session_id, question, total_time, t) ==
    [st |-> [record_turn(r.st, session_id, question, r.st.heap[r.result].response, t)
                EXCEPT !.heap[r.result].response_time = total_time],
     raised |-> None, result |-> r.result]

\* ghost: one call of the agent made by process_request, and how it ended
Attempt(user_preferences, r) ==
    [user_preferences |-> user_preferences, raised |-> r.raised, result |-> r.result]

\* process_request after the second call of the agent; first is the first call
after_fallback(r, first, session_id, question, total_time, t) ==
    (IF r.raised # None
     THEN Return(r.st, ChatResponse(IssueText, SidOrUnknown(session_id), << >>, 0, total_time))
     ELSE after_answer(r, session_id, question, total_time, t))
        @@ [path |-> <<first, Attempt(NoPreferences, r)>>]

\* process_request after the first call of the agent: when it raised, the agent
\* is called again without preferences
after_agent(r, chat_request, fxs, total_time, t) ==
    IF r.raised = None
    THEN after_answer(r, chat_request.session_id, chat_request.question, total_time, t)
             @@ [path |-> <<Attempt(chat_request.user_preferences, r)>>]
    ELSE after_fallback(answer_question(r.st, chat_request.question, chat_request.session_id,
                                        NoPreferences, fxs[3], fxs[4], t),
                        Attempt(chat_request.user_preferences, r),
                        chat_request.session_id, chat_request.question, total_time, t)

\* the function process_request under handle_exceptions(fallback_return=None,
\* reraise=False): [st, raised, result, path]; result None is the return value
\* None, path the calls of the agent that were made.
\* fallback_response is constructed before the try block.  fxs are the upstream
\* outcomes of the pipeline runs, in order.
process_request_wrapped(st, chat_request, fxs, overhead, t) ==
    IF ~ChatResponseValid(ChatResponse(IssueText, SidOrUnknown(chat_request.session_id),
                                       << >>, 0, 0))
    THEN [st |-> st, raised |-> None, result |-> None, path |-> << >>]
    ELSE after_agent(answer_question(lookup_context(st, chat_request.session_id, t),
                                     chat_request.question, chat_request.session_id,
                                     chat_request.user_preferences, fxs[1], fxs[2], t),
                     chat_request, fxs, fxs[1].d + overhead, t)

\* helpers.time_it_async is itself declared async def: applied as a decorator it
\* returns a coroutine object in place of a function
time_it_async(func) == "coroutine"
\* what the class attribute AgentService.process_request is bound to
process_request_attribute == time_it_async("function")

\* a call self.process_request(chat_request): calling a coroutine object raises TypeError
process_request(st, chat_request, fxs, overhead, t) ==
    IF process_request_attribute = "function"
    THEN process_request_wrapped(st, chat_request, fxs, overhead, t)
    ELSE Raise(st, "TypeError") @@ [path |-> << >>]

\* one iteration of the loop of process_request_with_circuit_breaker: r is how
\* process_request ended
RECURSIVE circuit_breaker_loop(_, _, _, _, _, _, _)
after_attempt(r, chat_request, max_retries, attempt, plan, overhead, t) ==
    IF r.raised = None
    THEN [st |-> r.st, raised |-> None, result |-> r.result, attempts |-> attempt + 1]
    ELSE circuit_breaker_loop(r.st, chat_request, max_retries, attempt + 1, r.raised, plan, t)

\* the loop from the given attempt on: [st, raised, result, attempts]; plan[i]
\* are the upstream outcomes of attempt i; last_exception is raised after the loop
circuit_breaker_loop(st, chat_request, max_retries, attempt, last_exception, plan, t) ==
    IF attempt > max_retries
    THEN [st |-> st, raised |-> last_exception, result |-> None, attempts |-> attempt]
    ELSE after_attempt(process_request(st, chat_request, plan[attempt + 1], 1, t),
                       chat_request, max_retries, attempt, plan, 1, t)

\* AgentService.process_request_with_circuit_breaker; handle_exceptions re-raises
process_request_with_circuit_breaker(st, chat_request, max_retries, plan, t) ==
    circuit_breaker_loop(st, chat_request, max_retries, 0, None, plan, t)

(***************************************************************************)
(* The request path as a state machine.                                    *)
(***************************************************************************)
\* ChatRequest: the session id is None or a UUID, the question is not blank
ChatRequests ==
    {req \in [question : Questions, session_id : {"s1", None}, user_preferences : Preferences] :
        req.user_preferences = NoPreferences \/ (req.question = "q1" /\ req.session_id = "s1")}
\* the requests given to the orchestration layer
ServiceRequests == {req \in ChatRequests : req.user_preferences = NoPreferences}

\* time a request spends outside the pipeline, seconds
Overhead == 1

\* objects no longer referenced by the cache or by the caller are collected
Collect(h, c, result) ==
    [o \in {x \in DOMAIN h : x = result \/ \E i \in 1..Len(c) : c[i].value = x} |-> h[o]]

\* the upstream calls made between two states
CallsMade(before, after) ==
    [embedding |-> after.embedding - before.embedding,
     search |-> after.search - before.search,
     completion |-> after.completion - before.completion]

\* the first pipeline run of answer_question raises, so that the decorator runs it again
Reruns(question, session_id, user_preferences, fx) ==
    /\ cache_key_of(question, session_id, user_preferences) \notin Keys(cache)
    /\ optimize_concurrent_retrieval(State, question, session_id, user_preferences, fx,
                                     now).raised # None

SecondFaults(question, session_id, user_preferences, fx) ==
    IF Reruns(question, session_id, user_preferences, fx)
    THEN {NoFault, [NoFault EXCEPT !.retrieval = "search_fail"]}
    ELSE {NoFault}

\* ghost: a request for session_id was processed; clean is FALSE for a request
\* that met an upstream fault or did not come through answer_question directly
Served(a, ss, session_id, question, clean) ==
    IF session_id \in DOMAIN ss
    THEN [a EXCEPT ![session_id].served = Append(@, question),
                   ![session_id].clean = @ /\ clean]
    ELSE a

\* the operation ended as r: its effects, and what the caller observes
Done(r, op, req, session_id, clean) ==
    /\ requests' = requests + 1
    /\ sessions' = r.st.sessions
    /\ cache' = r.st.cache
    /\ heap' = Collect(r.st.heap, r.st.cache, r.result)
    /\ stored' = r.st.stored
    /\ upstream' = r.st.upstream
    /\ added' = Served(r.st.added, sessions, session_id, req.question, clean)
    /\ ret' = [op |-> op, request |-> req, raised |-> r.raised, result |-> r.result,
               key |-> cache_key_of(req.question, session_id, req.user_preferences),
               value |-> IF r.result # None THEN r.st.heap[r.result] ELSE None,
               calls |-> CallsMade(upstream, r.st.upstream), at |-> now]
                   @@ [x \in DOMAIN r \ {"st", "raised", "result", "active"} |-> r[x]]
    /\ UNCHANGED <<chunker, collection, tasks, lastUse, tick, now, corpus, last_seen>>

\* ghost: the call runs the pipeline and the pipeline exceeds the timeout budget
TimedOut(question, session_id, user_preferences, fx) ==
    /\ cache_key_of(question, session_id, user_preferences) \notin Keys(cache)
    /\ Hangs(fx)

\* what the caller and the Session Store see of a call that ended as r
Observed(r) ==
    [raised |-> r.raised,
     value |-> IF r.result # None THEN r.st.heap[r.result] ELSE None,
     sessions |-> r.st.sessions]

\* ghost: the contexts a pipeline run with outcomes fx puts into the prompt
PromptContexts(fx) == filter_repetitive_contexts(retrieve_context(fx).contexts)

\* textbook_agent.answer_question(question, session_id, user_preferences)
AnswerQuestion ==
    /\ requests < MaxRequests
    /\ \E req \in ChatRequests, fx \in Faults :
       \E fx2 \in SecondFaults(req.question, req.session_id, req.user_preferences, fx) :
          Done(answer_question(State, req.question, req.session_id, req.user_preferences,
                               fx, fx2, now)
                   @@ [timeout |-> TimedOut(req.question, req.session_id,
                                            req.user_preferences, fx),
                       prompt |-> PromptContexts(fx),
                       grounding |-> fx.grounding,
                       grounded |-> Observed(
                           answer_question(State, req.question, req.session_id,
                                           req.user_preferences,
                                           [fx EXCEPT !.grounding = "grounded"], fx2, now))],
               "answer_question", req, req.session_id,
               [fx EXCEPT !.grounding = "grounded"] = NoFault)
    /\ UNCHANGED active_sessions

\* the chat endpoint ended as r
EndpointDone(r, req) ==
    /\ Done(r, "chat_endpoint", req, r.session_id, FALSE)
    /\ active_sessions' = r.active

\* POST /chat
ChatEndpoint ==
    /\ requests < MaxRequests
    /\ \E req \in ChatRequests, fx \in Faults :
          EndpointDone(chat_endpoint(State, active_sessions, req, fx, Overhead, now), req)

\* the upstream outcomes of one process_request call whose retrieval fails or works
RunsOf(fails) ==
    LET fx == IF fails THEN [NoFault EXCEPT !.retrieval = "search_fail"] ELSE NoFault
    IN  <<fx, fx, fx, fx>>

\* agent_service.process_request(chat_request)
ProcessRequest ==
    /\ requests < MaxRequests
    /\ \E req \in ServiceRequests, fails \in BOOLEAN :
          Done(process_request(State, req, RunsOf(fails), Overhead, now),
               "process_request", req, req.session_id, FALSE)
    /\ UNCHANGED active_sessions

\* agent_service.process_request_with_circuit_breaker(chat_request, max_retries):
\* retrieval fails during the first k attempts and works from then on
CircuitBreaker ==
    /\ requests < MaxRequests
    /\ \E req \in ServiceRequests, max_retries \in 0..MaxRetries, k \in 0..MaxRetries :
          Done(process_request_with_circuit_breaker(
                   State, req, max_retries, [i \in 1..(max_retries + 1) |-> RunsOf(i <= k)],
                   now) @@ [max_retries |-> max_retries, k |-> k],
               "circuit_breaker", req, req.session_id, FALSE)
    /\ UNCHANGED active_sessions

\* conversation_service.create_session before the first request: one session is opened
OpenSession ==
    /\ requests = 0
    /\ now = 0
    /\ DOMAIN added = {}
    /\ CreateSession

\* time passes
Tick ==
    /\ now < MaxTime
    /\ now' = now + TickSeconds
    /\ UNCHANGED <<chunker, collection, tasks, cache, lastUse, tick, sessions, added, heap, stored, upstream,
                   active_sessions, requests, ret, corpus, last_seen>>

Next ==
    \/ AnswerQuestion
    \/ ChatEndpoint
    \/ ProcessRequest
    \/ CircuitBreaker
    \/ OpenSession
    \/ Tick

Spec == Init /\ [][Next]_vars

(***************************************************************************)
(* Concurrent requests.  The service runs on one asyncio event loop: a     *)
(* task runs until it awaits an upstream call (embedding, search,          *)
(* completion) or a newly created task (asyncio.wait_for), and only then   *)
(* another task runs.  Each action below is the code between two such      *)
(* suspension points.                                                      *)
(***************************************************************************)
TaskIds == {"t1", "t2", "t3"}
\* the session the concurrent callers name
TaskSession == "s1"
TaskRequests == {req \in ChatRequests : req.session_id = TaskSession}
\* a history one turn short of the bound, as a caller of update_session can pass it
NearFull == [i \in 1..(HistoryLimit - 1) |-> Turn("old", "old", 0)]

KeyOf(req) == cache_key_of(req.question, req.session_id, req.user_preferences)

\* a task: its kind, its position, its arguments and locals, and how it ended
Task(kind, pc, req, read, hit, result, turn) ==
    [kind |-> kind, pc |-> pc, request |-> req, read |-> read, hit |-> hit, result |-> result,
     turn |-> turn]

HistoryOf(ss, sid) == IF sid \in DOMAIN ss THEN ss[sid].conversation_history ELSE << >>

TasksUnchanged ==
    UNCHANGED <<lastUse, tick, active_sessions, now, requests, corpus, last_seen, chunker,
                collection>>

TaskStep(t) == ret' = [op |-> "task", task |-> t]

\* cached_agent_response up to the await of the wrapped call: the cache is read
StartAnswer(t) ==
    /\ t \notin DOMAIN tasks
    /\ \E req \in TaskRequests :
          LET g == LRUCache_get(cache, KeyOf(req)) IN
          /\ cache' = g.cache
          /\ tasks' = IF g.value # None
                      THEN Put(tasks, t, Task("answer", "done", req, << >>, TRUE, g.value, FALSE))
                      ELSE Put(tasks, t, Task("answer", "body", req, << >>, FALSE, None, FALSE))
    /\ TaskStep(t)
    /\ UNCHANGED <<sessions, added, heap, stored, upstream>>
    /\ TasksUnchanged

\* the body of answer_question up to the embedding call: the conversation
\* context is read from the session
BeginBody(t) ==
    /\ t \in DOMAIN tasks
    /\ tasks[t].pc = "body"
    /\ sessions' = lookup_context(State, tasks[t].request.session_id, now).sessions
    /\ tasks' = [tasks EXCEPT ![t].pc = "embedding",
                              ![t].read = HistoryOf(sessions, tasks[t].request.session_id)]
    /\ TaskStep(t)
    /\ UNCHANGED <<cache, added, heap, stored, upstream>>
    /\ TasksUnchanged

\* the embedding call returned; the search call is awaited
Embedded(t) ==
    /\ t \in DOMAIN tasks
    /\ tasks[t].pc = "embedding"
    /\ upstream' = Calls(upstream, 1, 0, 0)
    /\ tasks' = [tasks EXCEPT ![t].pc = "search"]
    /\ TaskStep(t)
    /\ UNCHANGED <<cache, sessions, added, heap, stored>>
    /\ TasksUnchanged

\* the search call returned; the completion call is awaited
Searched(t) ==
    /\ t \in DOMAIN tasks
    /\ tasks[t].pc = "search"
    /\ upstream' = Calls(upstream, 0, 1, 0)
    /\ tasks' = [tasks EXCEPT ![t].pc = "completion"]
    /\ TaskStep(t)
    /\ UNCHANGED <<cache, sessions, added, heap, stored>>
    /\ TasksUnchanged

history_read_at_start(live, read) == read

\* the list add_conversation_turn appends to: session.conversation_history of the
\* live session object, not what the task read before its upstream calls
history_appended_to(live, read) == live

\* the state in which the rest of answer_question runs once the completion call
\* has returned
Resumed(st, sid, read) ==
    IF sid \in DOMAIN st.sessions
    THEN [st EXCEPT !.upstream = Calls(@, 0, 0, 1),
                    !.sessions[sid].conversation_history = history_appended_to(@, read)]
    ELSE [st EXCEPT !.upstream = Calls(@, 0, 0, 1)]

\* the task ended as r
Finished(t, r) ==
    /\ sessions' = r.st.sessions
    /\ added' = r.st.added
    /\ cache' = r.st.cache
    /\ heap' = r.st.heap
    /\ stored' = r.st.stored
    /\ upstream' = r.st.upstream
    /\ tasks' = [tasks EXCEPT ![t].pc = "done", ![t].result = r.result,
                              ![t].turn = tasks[t].request.session_id \in DOMAIN sessions]

\* the completion call returned: the response is built, the turn is recorded and
\* the wrapper puts the response into the cache, without a suspension in between
Completed(t) ==
    /\ t \in DOMAIN tasks
    /\ tasks[t].pc = "completion"
    /\ Finished(t, after_miss(
                       respond(Resumed(State, tasks[t].request.session_id, tasks[t].read),
                               tasks[t].request.question, tasks[t].request.session_id,
                               retrieve_context(NoFault).contexts,
                               generate_answer_with_context(tasks[t].request.question,
                                                            retrieve_context(NoFault).contexts,
                                                            NoFault).text,
                               NoFault.d, now),
                       KeyOf(tasks[t].request), tasks[t].request.question,
                       tasks[t].request.session_id, tasks[t].request.user_preferences,
                       NoFault, now))
    /\ TaskStep(t)
    /\ TasksUnchanged

\* a task that calls conversation_service.add_conversation_turn directly: the
\* call has no suspension point
TurnCall(t) ==
    /\ t \notin DOMAIN tasks
    /\ LET a == add_conversation_turn(sessions, TaskSession, "q1", "direct", now) IN
       /\ sessions' = a.sessions
       /\ added' = with_turn(State, a, TaskSession, Turn("q1", "direct", now)).added
       /\ tasks' = Put(tasks, t, Task("turn", "done", None, << >>, FALSE, None, a.result))
    /\ TaskStep(t)
    /\ UNCHANGED <<cache, heap, stored, upstream>>
    /\ TasksUnchanged

\* conversation_service.update_session(session_id, {"conversation_history": ...})
\* before the tasks start
SeedHistory ==
    /\ DOMAIN tasks = {}
    /\ TaskSession \in DOMAIN sessions
    /\ sessions[TaskSession].conversation_history = << >>
    /\ sessions' = update_session(sessions, TaskSession, [conversation_history |-> NearFull],
                                  now).sessions
    /\ added' = AddedReset(added, TaskSession, NearFull)
    /\ ret' = [op |-> "update_session", session_id |-> TaskSession, result |-> TRUE]
    /\ UNCHANGED <<tasks, cache, heap, stored, upstream>>
    /\ TasksUnchanged

NextConcurrent ==
    \/ OpenSession
    \/ SeedHistory
    \/ \E t \in TaskIds :
          \/ StartAnswer(t)
          \/ BeginBody(t)
          \/ Embedded(t)
          \/ Searched(t)
          \/ Completed(t)
          \/ TurnCall(t)

SpecConcurrent == Init /\ [][NextConcurrent]_vars

(***************************************************************************)
(* Ingestion: main.py.  chunk_text splits a page into chunks, main saves   *)
(* every chunk as a point of the collection.  A chunk's content is a       *)
(* sequence of lines and a line is a sequence of pieces: an input line is  *)
(* one piece, the overlap step joins pieces into one line.                 *)
(***************************************************************************)
\* most lines of a page, and most runs of the ingestion over it
MaxLines == 4
MaxRuns == 2
\* len(current_chunk) + len(line) < 800
TargetChunkSize == 800
\* len() of the paragraph line of the model
ParagraphLen == 400

Marker == "[CONTINUED]"
Paragraph == "a paragraph of 400 characters"
InputLines == {"   ", "# Chapter", "## Section", "### Topic", "#### Deep", "text", Paragraph}
Urls == {"", "https://book.org/docs/intro"}
Texts == UNION {[1..n -> InputLines] : n \in 0..MaxLines}

\* line.strip()
line_strip(line) == IF line = "   " THEN "" ELSE line
\* line.startswith('#')
startswith_hash(line) == line \in {"# Chapter", "## Section", "### Topic", "#### Deep"}
\* line.count('#')
count_hash(line) ==
    CASE line = "# Chapter" -> 1
      [] line = "## Section" -> 2
      [] line = "### Topic" -> 3
      [] line = "#### Deep" -> 4
      [] OTHER -> 0
\* line.lstrip('#').strip()
heading_text_of(line) ==
    CASE line = "# Chapter" -> "Chapter"
      [] line = "## Section" -> "Section"
      [] line = "### Topic" -> "Topic"
      [] line = "#### Deep" -> "Deep"
      [] OTHER -> line
\* len(line)
line_len(line) ==
    CASE line = Paragraph -> ParagraphLen
      [] line = "# Chapter" -> 9
      [] line = "## Section" -> 10
      [] line = "### Topic" -> 9
      [] line = "#### Deep" -> 9
      [] line = "text" -> 4
      [] OTHER -> 0

\* len(current_chunk): every accumulated line is followed by a newline
RECURSIVE chunk_len(_)
chunk_len(current_chunk) ==
    IF current_chunk = << >> THEN 0
    ELSE line_len(Head(current_chunk)[1]) + 1 + chunk_len(Tail(current_chunk))

\* the chapter chunk_text takes from the path of the url
url_chapter(url) == IF url = "" THEN "" ELSE "intro"

\* current_metadata before the first line
first_metadata(url) ==
    [url |-> url, chapter |-> url_chapter(url), section |-> "", heading_hierarchy |-> << >>]

\* the metadata after a heading of the given level
with_heading(m, level, heading_text) ==
    CASE level = 1 -> [m EXCEPT !.chapter = heading_text,
                                !.heading_hierarchy = <<heading_text>>]
      [] level = 2 -> [m EXCEPT !.section = heading_text,
                                !.heading_hierarchy = IF Len(@) > 0 THEN <<@[1], heading_text>>
                                                      ELSE <<heading_text>>]
      [] level = 3 -> [m EXCEPT !.heading_hierarchy =
                                    IF Len(@) > 1 THEN <<@[1], @[2], heading_text>>
                                    ELSE <<heading_text, heading_text>>]
      [] OTHER -> m

save_current_always(chunks, current_chunk, metadata) ==
    Append(chunks, [content |-> current_chunk, metadata |-> metadata])

\* if current_chunk.strip(): chunks.append({content, metadata.copy()})
save_current(chunks, current_chunk, metadata) ==
    IF current_chunk # << >>
    THEN Append(chunks, [content |-> current_chunk, metadata |-> metadata])
    ELSE chunks

\* one pass through the body of the while loop of chunk_text
loop_body(c, line) ==
    IF line = ""
    THEN [c EXCEPT !.i = @ + 1]
    ELSE IF startswith_hash(line)
    THEN [c EXCEPT !.chunks = save_current(@, c.current_chunk, c.current_metadata),
                   !.current_metadata = with_heading(@, count_hash(line), heading_text_of(line)),
                   !.current_chunk = << <<line>> >>,
                   !.i = @ + 1]
    ELSE IF chunk_len(c.current_chunk) + line_len(line) < TargetChunkSize
    THEN [c EXCEPT !.current_chunk = Append(@, <<line>>),
                   !.i = @ + 1]
    ELSE [c EXCEPT !.chunks = save_current(@, c.current_chunk, c.current_metadata),
                   !.current_chunk = << <<line>> >>,
                   !.i = @ + 1]

\* content.split('\n')[-2:]
last_two_lines(content) == PySliceFrom(content, 0 - 2)

\* " ".join(lines): one line holding the pieces of all of them
RECURSIVE join(_)
join(lines) == IF lines = << >> THEN << >> ELSE Head(lines) \o join(Tail(lines))

\* " ".join(prev_lines) + " [CONTINUED] " + content
overlap_text(prev_lines, content) ==
    <<join(prev_lines) \o <<Marker>> \o Head(content)>> \o Tail(content)

\* prev_content = chunks[i-1]["content"]: read from the list the loop is writing to
previous_content(chunks, j) == chunks[j - 1].content

\* one pass through the body of the overlap loop, for the j-th chunk
overlap_body(c) ==
    IF c.j > 1
    THEN [c EXCEPT !.chunks[c.j].content =
                       overlap_text(last_two_lines(previous_content(c.chunks, c.j)),
                                    @),
                   !.j = @ + 1]
    ELSE [c EXCEPT !.j = @ + 1]

\* the locals of chunk_text when the while loop starts
Chunking(lines, url, run) ==
    [phase |-> "lines", lines |-> lines, url |-> url, i |-> 1, chunks |-> << >>,
     current_chunk |-> << >>, current_metadata |-> first_metadata(url),
     accumulated |-> << >>, j |-> 1, k |-> 1, run |-> run]

IngestUnchanged ==
    UNCHANGED <<cache, lastUse, tick, sessions, added, heap, stored, upstream, active_sessions,
                now, requests, corpus, last_seen, tasks>>

\* main: chunk_text(text, url) is called for a page
ChunkText ==
    /\ chunker.phase = "idle"
    /\ \E lines \in Texts, url \in Urls : chunker' = Chunking(lines, url, 1)
    /\ ret' = [op |-> "chunk_text"]
    /\ UNCHANGED collection
    /\ IngestUnchanged

\* while i < len(lines): one line is processed
ChunkLine ==
    /\ chunker.phase = "lines"
    /\ chunker.i <= Len(chunker.lines)
    /\ chunker' = loop_body(chunker, line_strip(chunker.lines[chunker.i]))
    /\ UNCHANGED <<ret, collection>>
    /\ IngestUnchanged

\* the loop is over: the final chunk is added; with one chunk or none the
\* function returns, otherwise the overlap loop starts
ChunkFinal ==
    /\ chunker.phase = "lines"
    /\ chunker.i > Len(chunker.lines)
    /\ LET chunks == save_current(chunker.chunks, chunker.current_chunk,
                                  chunker.current_metadata)
       IN  chunker' = [chunker EXCEPT !.chunks = chunks,
                                      !.accumulated = chunks,
                                      !.phase = IF Len(chunks) > 1 THEN "overlap" ELSE "returned"]
    /\ UNCHANGED <<ret, collection>>
    /\ IngestUnchanged

\* for i, chunk in enumerate(chunks): one chunk gets its overlap
OverlapChunk ==
    /\ chunker.phase = "overlap"
    /\ chunker.j <= Len(chunker.chunks)
    /\ chunker' = overlap_body(chunker)
    /\ UNCHANGED <<ret, collection>>
    /\ IngestUnchanged

\* the overlap loop is over: chunk_text returns chunks
ChunkReturn ==
    /\ chunker.phase = "overlap"
    /\ chunker.j > Len(chunker.chunks)
    /\ chunker' = [chunker EXCEPT !.phase = "returned"]
    /\ UNCHANGED <<ret, collection>>
    /\ IngestUnchanged

\* the ids save_chunk_to_qdrant can draw
PointUuids == 1..(MaxRuns * MaxLines)
\* str(uuid.uuid4()): an id that no point has
uuid4(ids, chunk) == CHOOSE id \in PointUuids : id \notin ids

\* client.upsert(points=[point]): a point with the id of an existing point replaces it
upsert(points, point) == {p \in points : p.id # point.id} \cup {point}

\* save_chunk_to_qdrant(content, embedding, metadata, collection_name); the
\* embedding is a function of the content
save_chunk_to_qdrant(points, chunk) ==
    upsert(points, [id |-> uuid4({p.id : p \in points}, chunk), chunk |-> chunk])

\* main: the next chunk of the page is saved
SaveChunk ==
    /\ chunker.phase = "returned"
    /\ chunker.k <= Len(chunker.chunks)
    /\ collection' = save_chunk_to_qdrant(collection, chunker.chunks[chunker.k])
    /\ chunker' = [chunker EXCEPT !.k = @ + 1]
    /\ ret' = [op |-> "save_chunk_to_qdrant", chunk |-> chunker.chunks[chunker.k],
               before |-> collection]
    /\ IngestUnchanged

\* the ingestion is run again over the unchanged page
RunAgain ==
    /\ chunker.phase = "returned"
    /\ chunker.k > Len(chunker.chunks)
    /\ chunker.run < MaxRuns
    /\ chunker' = Chunking(chunker.lines, chunker.url, chunker.run + 1)
    /\ ret' = [op |-> "chunk_text"]
    /\ UNCHANGED collection
    /\ IngestUnchanged

ChunkStep == ChunkLine \/ ChunkFinal \/ OverlapChunk \/ ChunkReturn

NextIngest ==
    \/ ChunkText
    \/ ChunkLine
    \/ ChunkFinal
    \/ OverlapChunk
    \/ ChunkReturn
    \/ SaveChunk
    \/ RunAgain

SpecIngest == Init /\ [][NextIngest]_vars

\* a call of chunk_text that has started keeps running: it is synchronous code
SpecIngestFair == SpecIngest /\ WF_vars(ChunkStep)

ValueOf(c, key) == c[IndexOf(c, key)].value

\* the operations that go through the Response Cache and report a hit or a miss
CachedOps == {"answer_question", "chat_endpoint"}

\* C1: every call of AgentService.process_request returns a well-formed
\* ChatResponse: it does not raise, it does not return None, the response text
\* is not empty, the session id is the request's, and when retrieval failed the
\* response carries no citations.
C1_ProcessRequestAlwaysResponds ==
    ret.op = "process_request" =>
        /\ ret.raised = None
        /\ ret.result # None
        /\ ret.value.response # ""
        /\ ret.request.session_id # None => ret.value.session_id = ret.request.session_id
        /\ ret.calls.search = 0 => ret.value.citations = << >>

\* C2: when answer_question is called twice in a row with the same question,
\* session id and preferences, the second call within the TTL of the first, the
\* second call returns the response object of the first and makes no embedding,
\* search or completion call.
C2_SecondCallServedFromCache ==
    [][ ( /\ ret.op = "answer_question"
          /\ ret'.op = "answer_question"
          /\ requests' = requests + 1
          /\ ret'.request = ret.request
          /\ now - ret.at < ttl )
        => ( /\ ret'.raised = None
             /\ ret'.hit
             /\ ret'.result = ret.result
             /\ ret'.calls = [embedding |-> 0, search |-> 0, completion |-> 0] )
      ]_vars

\* C3: a request is served from the Response Cache only while the entry is
\* younger than the TTL: whenever a call reports a hit, less than ttl seconds
\* have passed since the entry was stored.
C3_HitOnlyWithinTtl ==
    (ret.op \in CachedOps /\ ret.raised = None /\ ret.hit) =>
        ret.at - stored[ret.key].at < ttl

\* C4: a response stored in the Response Cache is never modified: every cached
\* object still has the fields it had when it was put, and every hit returns a
\* value equal field by field to what was stored at the miss.
C4_StoredResponseUnchanged ==
    /\ \A i \in 1..Len(cache) : heap[cache[i].value] = stored[cache[i].key].value
    /\ (ret.op \in CachedOps /\ ret.raised = None /\ ret.hit) =>
            ret.value = stored[ret.key].value

\* C5: the cache never holds more than maxsize entries; an entry leaves the cache
\* only when a put of a new key finds the cache full, and then exactly one entry
\* leaves, the one whose last get hit or put is the oldest; a put on an existing
\* key replaces its value and evicts nothing.
C5_LruBoundAndEviction ==
    [][ LET K == Keys(cache)
            K2 == Keys(cache')
            gone == K \ K2
        IN  /\ Len(cache') <= maxsize
            /\ Cardinality(K2) = Len(cache')
            /\ gone # {} =>
                /\ Cardinality(gone) = 1
                /\ ret'.op = "put"
                /\ ret'.key \notin K
                /\ Len(cache) = maxsize
                /\ \A e \in gone : \A k \in K : lastUse[e] <= lastUse[k]
            /\ (ret'.op = "put" /\ ret'.key \notin K /\ Len(cache) >= maxsize) =>
                Cardinality(gone) = 1
            /\ (ret'.op = "put" /\ ret'.key \in K) =>
                /\ K2 = K
                /\ ValueOf(cache', ret'.key) = ret'.value
                /\ \A k \in K \ {ret'.key} : ValueOf(cache', k) = ValueOf(cache, k)
            /\ ret'.op = "put" => (ret'.key \in K2 /\ ValueOf(cache', ret'.key) = ret'.value)
            /\ ret'.op = "get" =>
                /\ K2 = K
                /\ ret'.value = (IF ret'.key \in K THEN ValueOf(cache, ret'.key) ELSE None)
      ]_vars

\* a put of a new key found the cache full and evicted one entry, while an entry
\* inserted earlier than the evicted one survives because a get hit refreshed it
C5_Witness ==
    /\ ret.op = "put"
    /\ ret.evicted = {"k2"}
    /\ Keys(cache) = {"k1", "k3"}
    /\ lastUse["k1"] = 3
    /\ lastUse["k2"] = 2

History(sid) == sessions[sid].conversation_history

\* the last n elements of s
LastN(s, n) == SubSeq(s, Len(s) - n + 1, Len(s))

\* C6: in every reachable state of the Session Store every session's history
\* holds at most 50 turns.
C6_HistoryAtMostLimit ==
    \A sid \in DOMAIN sessions : Len(History(sid)) <= HistoryLimit

\* C7: the history of a session is the most recent min(n, 50) of the turns it was
\* given, in the order they were added: the turns added by add_conversation_turn
\* follow, in call order, what the history held when it was last set, and only
\* the oldest turns are missing.
C7_AddTurnKeepsMostRecent ==
    \A sid \in DOMAIN sessions :
        LET all == added[sid].base \o added[sid].turns IN
        (Len(added[sid].turns) >= 1 \/ Len(all) <= HistoryLimit) =>
            History(sid) = LastN(all, Min(Len(all), HistoryLimit))

\* 51 turns were added to a fresh session: the first is gone, turns 2..51 remain
C7_Witness ==
    \E sid \in DOMAIN sessions :
        /\ added[sid].base = << >>
        /\ Len(added[sid].turns) = HistoryLimit + 1
        /\ Len(History(sid)) = HistoryLimit
        /\ History(sid)[1].question = 2
        /\ History(sid)[HistoryLimit].question = HistoryLimit + 1

\* C8: get_conversation_context(session_id, max_turns=N) returns exactly the most
\* recent min(N, history length) turns, in chronological order, and never more
\* than N turns, for every N >= 0.
C8_ContextIsMostRecentN ==
    (ret.op = "get_conversation_context" /\ ret.session_id \in DOMAIN sessions) =>
        /\ ret.result = LastN(History(ret.session_id),
                              Min(ret.max_turns, Len(History(ret.session_id))))
        /\ Len(ret.result) <= ret.max_turns

\* C9: each request processed for an existing session grows its history by
\* exactly one turn: on a session that started empty and saw only fault-free
\* answer_question requests, the history holds one turn per request, in request
\* order.
C9_OneTurnPerRequest ==
    \A sid \in DOMAIN sessions :
        (added[sid].base = << >> /\ added[sid].clean) =>
            /\ Len(History(sid)) = Len(added[sid].served)
            /\ \A i \in 1..Len(History(sid)) : History(sid)[i].question = added[sid].served[i]

\* C10: process_request_with_circuit_breaker(request, max_retries) attempts the
\* pipeline at most max_retries + 1 times, and when retrieval fails during the
\* first k <= max_retries attempts and works on the next one, the call returns
\* the response of that attempt and the search service was invoked k + 1 times.
C10_RetriesUntilSuccess ==
    ret.op = "circuit_breaker" =>
        /\ ret.attempts <= ret.max_retries + 1
        /\ ret.k <= ret.max_retries =>
            /\ ret.raised = None
            /\ ret.result # None
            /\ ret.calls.search = ret.k + 1

\* C11: process_request follows Attempt -> DegradedAttempt -> Fail: the first
\* call of the agent carries the request's preferences; a second call is made
\* only after the first failed and carries no preferences; the canned fallback
\* response is returned only after both calls failed; a call that succeeds is
\* the last one and its response is the one returned.
C11_AttemptDegradedFail ==
    ret.op = "process_request" =>
        /\ Len(ret.path) \in {1, 2}
        /\ ret.path[1].user_preferences = ret.request.user_preferences
        /\ Len(ret.path) = 2 =>
               ret.path[1].raised # None /\ ret.path[2].user_preferences = NoPreferences
        /\ ret.path[Len(ret.path)].raised = None =>
               ret.raised = None /\ ret.result = ret.path[Len(ret.path)].result
        /\ ret.path[Len(ret.path)].raised # None =>
               /\ Len(ret.path) = 2
               /\ ret.raised = None
               /\ ret.value # None
               /\ ret.value.response = IssueText

\* C12: an answer_question call that misses the cache invokes the completion
\* service exactly once, whether the completion succeeds or fails (a run that
\* is cancelled while it waits for retrieval has not reached the completion
\* call yet); no second completion call is made for the question.
C12_OneCompletionPerMiss ==
    (ret.op = "answer_question" /\ ~ret.hit) =>
        \/ ret.calls.completion = 1
        \/ ret.timeout /\ ret.calls.completion = 0

\* C13: when the pipeline exceeds the timeout budget the caller of
\* answer_question gets the canned apology with no citations and
\* retrieved_context_count 0, and no exception.
C13_TimeoutIsCannedResponse ==
    (ret.op = "answer_question" /\ ret.timeout) =>
        /\ ret.raised = None
        /\ ret.value # None
        /\ ret.value.response = HighDemandText
        /\ ret.value.citations = << >>
        /\ ret.value.retrieved_context_count = 0

\* the retrieval operations
RetrievalOps == {"retrieve_context", "retrieve_context_with_expansion"}

\* C14: retrieve_context and retrieve_context_with_expansion return an empty
\* list and raise nothing whenever the embedding call or the similarity-search
\* call raises.
C14_FailureGivesEmptyList ==
    (ret.op \in RetrievalOps /\ ret.fx # NoRetrievalFault) =>
        ret.raised = None /\ ret.result = << >>

\* C15: no two entries of a returned list have the same normalized
\* first-100-character content prefix, and no two have the same source URL.
C15_NoSharedPrefixOrUrl ==
    ret.op \in RetrievalOps =>
        \A i, j \in 1..Len(ret.result) :
            i < j => /\ content_key(ret.result[i].content) # content_key(ret.result[j].content)
                     /\ ret.result[i].url # ret.result[j].url

\* two points share a dedup key: the content key, or a url that is not empty
SharesKey(p, q) ==
    \/ content_key(get(Payload(p.id), "content", "")) = content_key(get(Payload(q.id), "content", ""))
    \/ /\ get(Payload(p.id), "url", "") # ""
       /\ get(Payload(p.id), "url", "") = get(Payload(q.id), "url", "")
\* the point has content and can be turned into a context
Usable(p) ==
    /\ strip(get(Payload(p.id), "content", "")) # ""
    /\ RetrievedContextValid(context_fields(p))

\* C16: when two candidates share a dedup key the earlier one survives: a
\* usable candidate the loop looked at is dropped only for an earlier
\* candidate that survived and shares a key with it, and no survivor shares a
\* key with an earlier survivor; in the merge the original-query candidates
\* precede the expanded-query candidates.
C16_EarlierCandidateSurvives ==
    ret.op \in RetrievalOps =>
        /\ \A j \in 1..ret.visited :
               (Usable(ret.candidates[j]) /\ j \notin ret.taken) =>
                   \E i \in ret.taken : i < j /\ SharesKey(ret.candidates[i], ret.candidates[j])
        /\ \A i, j \in ret.taken : i < j => ~SharesKey(ret.candidates[i], ret.candidates[j])
        /\ ret.candidates =
               SubSeq(corpus.original, 1, ret.originals)
                   \o SubSeq(corpus.expanded, 1, Len(ret.candidates) - ret.originals)

\* C17: a returned list holds at most top_k entries.
C17_AtMostTopK ==
    ret.op \in RetrievalOps => Len(ret.result) <= ret.top_k

\* the loop stopped at top_k with candidates left over
C17_Witness ==
    /\ ret.op \in RetrievalOps
    /\ ret.top_k >= 1
    /\ Len(ret.result) = ret.top_k
    /\ ret.visited < Len(ret.candidates)
    /\ \E j \in (ret.visited + 1)..Len(ret.candidates) :
           /\ Usable(ret.candidates[j])
           /\ \A i \in ret.taken : ~SharesKey(ret.candidates[i], ret.candidates[j])

\* C18: retrieve_context is deterministic: a call that repeats the call before
\* it, with the corpus unchanged, returns the same entries in the same order
\* with the same scores.
C18_RepeatedCallSameResult ==
    (ret.op = "retrieve_context" /\ ret.repeat) => ret.result = ret.previous

\* a repeated call that dropped a duplicate and reordered the rest
C18_Witness ==
    /\ ret.op = "retrieve_context"
    /\ ret.repeat
    /\ Len(ret.result) = 2
    /\ ret.result[1].id = ret.candidates[2].id
    /\ last_seen.content # {}

\* C19: every citation has a non-empty source_url, chapter and section, also
\* when the payload lacks the fields or holds empty ones: missing or empty
\* chapter and section get the defaults, a missing url gets the default url, a
\* candidate that cannot be turned into a context is skipped, and nothing is raised.
C19_CitationsComplete ==
    ret.op \in RetrievalOps =>
        /\ ret.raised = None
        /\ \A k \in 1..Len(ret.result) :
               /\ strip(extract_citations(ret.result)[k].source_url) # ""
               /\ strip(extract_citations(ret.result)[k].chapter) # ""
               /\ strip(extract_citations(ret.result)[k].section) # ""
               /\ Payload(ret.result[k].id).chapter \in {Missing, ""} =>
                      extract_citations(ret.result)[k].chapter = UnknownChapter
               /\ Payload(ret.result[k].id).section \in {Missing, ""} =>
                      extract_citations(ret.result)[k].section = UnknownSection
               /\ Payload(ret.result[k].id).url = Missing =>
                      extract_citations(ret.result)[k].source_url = DefaultUrl

\* a candidate with an empty url was skipped and one without url, chapter and
\* section is cited with the defaults
C19_Witness ==
    /\ ret.op \in RetrievalOps
    /\ \E j \in 1..ret.visited : ret.candidates[j].id = "G" /\ j \notin ret.taken
    /\ \E k \in 1..Len(ret.result) :
           /\ ret.result[k].id = "E"
           /\ extract_citations(ret.result)[k] =
                  [source_url |-> DefaultUrl, chapter |-> UnknownChapter,
                   section |-> UnknownSection, similarity_score |-> 280]

\* the operations that return a ChatResponse
ResponseOps == {"answer_question", "chat_endpoint", "process_request", "circuit_breaker"}

\* C20: every ChatResponse with retrieved_context_count = 0 has an empty
\* citation list, whichever path produced it: the one returned and the ones
\* held by the cache.
C20_NoContextNoCitations ==
    /\ \A o \in DOMAIN heap :
           heap[o].retrieved_context_count = 0 => heap[o].citations = << >>
    /\ (ret.op \in ResponseOps /\ ret.result # None) =>
           (ret.value.retrieved_context_count = 0 => ret.value.citations = << >>)

\* a canned timeout response without citations is held next to an answer
\* that cites its one context
C20_Witness ==
    /\ ret.op \in ResponseOps
    /\ ret.result # None
    /\ ret.value.response = HighDemandText
    /\ ret.value.retrieved_context_count = 0
    /\ \E o \in DOMAIN heap :
           /\ heap[o].retrieved_context_count = 1
           /\ heap[o].citations = <<Citation(FoundContexts[1])>>

\* C27: cleanup_expired_sessions removes exactly the sessions whose last activity
\* is older than the session timeout and leaves every other session and its
\* history unchanged.
C27_SweepRemovesExactlyExpired ==
    [][ ret'.op = "cleanup_expired_sessions" =>
            sessions' = [sid \in DOMAIN sessions \ expired_sessions(sessions, now)
                            |-> sessions[sid]]
      ]_vars

\* the value by which a session operation reports that it found no session
FailureValue(op) ==
    CASE op = "get_conversation_context" -> << >>
      [] OTHER -> FALSE

\* C29: get_session, add_conversation_turn, get_conversation_context and
\* end_session on an id that names no live session (unknown, malformed, ended or
\* swept) return their failure value (None, False, [], False) and leave the
\* store as it was: no session is created and no other session is altered.
C29_DeadIdFailsAsValue ==
    [][ ( /\ ret'.op \in {"get_session", "add_conversation_turn",
                           "get_conversation_context", "end_session"}
          /\ ret'.session_id \notin DOMAIN sessions )
        => /\ sessions' = sessions
           /\ ret'.result = FailureValue(ret'.op)
      ]_vars

\* a turn was offered to a session that had been ended or swept, while another
\* session with a turn of its own was live
C29_Witness ==
    /\ ret.op = "add_conversation_turn"
    /\ ret.session_id \in DOMAIN added \ DOMAIN sessions
    /\ ret.result = FALSE
    /\ \E other \in DOMAIN sessions : Len(sessions[other].conversation_history) = 1

\* C30: a canned degraded response produced inside the cache wrapper is stored in
\* the Response Cache under the request's key like a normal answer: a miss that
\* returns a canned apology leaves that object in the cache under the key, and
\* while the entry is in the cache a request with the same key is a hit that
\* returns that object with no embedding, search or completion call.
C30_DegradedResponseIsCached ==
    [][ ( /\ ret'.op \in CachedOps
          /\ requests' = requests + 1 )
        => /\ ( /\ ret'.raised = None
                /\ ~ret'.hit
                /\ ret'.value.response \in DegradedTexts )
              => ( /\ ret'.key \in Keys(cache')
                   /\ ValueOf(cache', ret'.key) = ret'.result )
           /\ ( /\ ret'.key \in Keys(cache)
                /\ heap[ValueOf(cache, ret'.key)].response \in DegradedTexts )
              => ( /\ ret'.raised = None
                   /\ ret'.hit
                   /\ ret'.result = ValueOf(cache, ret'.key)
                   /\ ret'.value.response \in DegradedTexts
                   /\ ret'.calls = [embedding |-> 0, search |-> 0, completion |-> 0] )
      ]_vars

\* the timeout apology was served from the cache, with no upstream call
C30_Witness ==
    /\ ret.op = "answer_question"
    /\ ret.raised = None
    /\ ret.hit
    /\ ret.value.response = HighDemandText
    /\ ret.calls = [embedding |-> 0, search |-> 0, completion |-> 0]

\* the elements of a sequence
Range(seq) == {seq[i] : i \in 1..Len(seq)}

\* C21: the citations of a response correspond one-to-one to the retrieved
\* contexts that survived the repetitive-content filter and went into the prompt:
\* a context the filter removed yields no citation, and when no context survives
\* the citation list is empty.
C21_CitationsOfPromptContexts ==
    (ret.op = "answer_question" /\ ret.raised = None /\ ~ret.hit) =>
        /\ Len(ret.value.citations) <= Len(ret.prompt)
        /\ \A citation \in Range(ret.value.citations) :
              \E ctx \in Range(ret.prompt) : citation = Citation(ctx)
        /\ ret.prompt = << >> => ret.value.citations = << >>

\* C22: the grounding verdict is advisory: a call of answer_question ends the
\* same way (the same exception or the same response fields) and leaves the same
\* session histories whether validate_answer_grounding returns True, returns
\* False or fails inside, everything else being equal.
C22_GroundingVerdictIsAdvisory ==
    ret.op = "answer_question" =>
        /\ ret.raised = ret.grounded.raised
        /\ ret.value = ret.grounded.value
        /\ sessions = ret.grounded.sessions

\* the validation failed inside and the answer was returned with its citation
\* and recorded in the session history
C22_Witness ==
    /\ ret.op = "answer_question"
    /\ ret.grounding = "fails"
    /\ ret.raised = None
    /\ ~ret.hit
    /\ ret.value.response = AnswerText(ret.request.question)
    /\ Len(ret.value.citations) = 1
    /\ ret.request.session_id \in DOMAIN sessions
    /\ Len(sessions[ret.request.session_id].conversation_history) = 1

\* the tasks that ran answer_question for req to its end and missed the cache
Missed(req) ==
    {t \in DOMAIN tasks : /\ tasks[t].kind = "answer"
                          /\ tasks[t].pc = "done"
                          /\ ~tasks[t].hit
                          /\ tasks[t].request = req}

\* C23: concurrent answer_question calls with identical question, session id and
\* preferences are not single-flight, and the cache stays well-formed: in every
\* state the cache holds at most maxsize entries and no key twice, and when two
\* identical calls have both missed and finished the cache holds exactly one
\* entry for their key, the response of one of them.
C23_OneEntryAfterDoubleMiss ==
    /\ Len(cache) <= maxsize
    /\ \A i, j \in 1..Len(cache) : cache[i].key = cache[j].key => i = j
    /\ \A req \in TaskRequests :
          Cardinality(Missed(req)) >= 2 =>
              /\ Cardinality({i \in 1..Len(cache) : cache[i].key = KeyOf(req)}) = 1
              /\ \E t \in Missed(req) : ValueOf(cache, KeyOf(req)) = tasks[t].result

\* two identical calls both missed the cache and both ran the pipeline: two
\* embedding, two search and two completion calls, two response objects, one
\* cache entry
C23_Witness ==
    \E req \in TaskRequests :
        /\ Missed(req) = {"t1", "t2"}
        /\ DOMAIN tasks = {"t1", "t2"}
        /\ upstream = [embedding |-> 2, search |-> 2, completion |-> 2]
        /\ tasks["t1"].result # tasks["t2"].result
        /\ Len(cache) = 1

\* the calls of add_conversation_turn on sid that completed and returned True
TurnsBy(sid) ==
    {t \in DOMAIN tasks : /\ tasks[t].pc = "done"
                          /\ tasks[t].turn}

\* C28: tasks that interleave only at the upstream calls lose no turn: the
\* history of the session holds the turns it held before the tasks started and
\* one turn per completed add_conversation_turn call, cut to the most recent 50,
\* and it never holds more than 50 turns at a suspension point.
C28_NoLostTurn ==
    TaskSession \in DOMAIN sessions =>
        /\ Len(History(TaskSession)) <= HistoryLimit
        /\ Len(History(TaskSession)) =
               Min(HistoryLimit, Len(added[TaskSession].base) + Cardinality(TurnsBy(TaskSession)))
        /\ History(TaskSession) =
               LastN(added[TaskSession].base \o added[TaskSession].turns,
                     Len(History(TaskSession)))

\* a history of 49 turns, then two answer_question calls that both missed the
\* cache and a direct call: 52 turns were given, the oldest 2 are gone
C28_Witness ==
    /\ TaskSession \in DOMAIN sessions
    /\ Len(added[TaskSession].base) = HistoryLimit - 1
    /\ TurnsBy(TaskSession) = TaskIds
    /\ \E req \in TaskRequests : Cardinality(Missed(req)) = 2
    /\ Len(History(TaskSession)) = HistoryLimit
    /\ History(TaskSession)[HistoryLimit - 3].question = "old"
    /\ History(TaskSession)[HistoryLimit - 2].question # "old"

\* the content holds a character that is not whitespace
NonBlank(content) ==
    \E n \in 1..Len(content) : \E m \in 1..Len(content[n]) : line_strip(content[n][m]) # ""

\* C24: every chunk chunk_text holds or returns has content that is not blank and
\* a heading_hierarchy of at most 3 entries, and every call of chunk_text
\* returns.
C24_ChunksWellFormedAndReturned ==
    /\ [](chunker.phase # "idle" =>
            \A n \in 1..Len(chunker.chunks) :
                /\ NonBlank(chunker.chunks[n].content)
                /\ Len(chunker.chunks[n].metadata.heading_hierarchy) <= 3)
    /\ [](chunker.phase \in {"lines", "overlap"} => <>(chunker.phase = "returned"))

\* a page of four headings, levels 1 to 4, was chunked into four chunks; the
\* last two carry a hierarchy of three headings
C24_Witness ==
    /\ chunker.phase = "returned"
    /\ chunker.lines = <<"# Chapter", "## Section", "### Topic", "#### Deep">>
    /\ Len(chunker.chunks) = 4
    /\ Len(chunker.chunks[4].metadata.heading_hierarchy) = 3

\* C25: when chunk_text returns two chunks or more, the first chunk is as it was
\* accumulated and every later chunk is the last two lines of its predecessor's
\* accumulated content, the continuation marker, and its own accumulated
\* content.
C25_OverlapFromPredecessorOnly ==
    (chunker.phase = "returned" /\ Len(chunker.chunks) >= 2) =>
        /\ chunker.chunks[1].content = chunker.accumulated[1].content
        /\ \A n \in 2..Len(chunker.chunks) :
              chunker.chunks[n].content =
                  overlap_text(last_two_lines(chunker.accumulated[n - 1].content),
                               chunker.accumulated[n].content)

\* C26: saving a chunk that the collection already holds adds no point: no two
\* points of the collection hold the same chunk.
C26_SaveIsIdempotent ==
    \A p, q \in collection : p.chunk = q.chunk => p = q

====
